---- MODULE Spec2Model ----
(***************************************************************************)
(* Model of the AURORA evolution harness (package src/aurora):             *)
(*   - BackupManager  (src/aurora/backup.py)                               *)
(*   - CodeValidator  (src/aurora/validation.py)                           *)
(*   - Aurora.run / Aurora.evolve_code  (src/aurora/core.py)               *)
(*                                                                         *)
(*   - ResourceMonitor  (src/aurora/monitoring.py)                         *)
(*   - ConfigManager  (src/aurora/config.py)                               *)
(*                                                                         *)
(* The specifications share the variables:                                 *)
(*   Spec          the supervisor loop (Aurora.run) with its ticks         *)
(*   SpecScenario  three ticks of the loop without a failing I/O call      *)
(*   SpecStore     the BackupManager used through its public methods       *)
(*   SpecRestore   restore_backup on what a backup directory can hold      *)
(*   SpecMonitor   check_thresholds and is_system_healthy of one monitor   *)
(*   SpecServices  the background loops, start/stop and _shutdown          *)
(*   SpecConfig    get, set and save_config of one ConfigManager           *)
(*   SpecReload    load_config of the reload thread against get            *)
(*   SpecValidator validate_code and validate_evolution_code               *)
(*   SpecCycle     cycle_context and _check_anomalies around each tick     *)
(*   SpecLongRun   the histories of the loop over more than a thousand     *)
(*                 ticks, with _periodic_cleanup                           *)
(***************************************************************************)
EXTENDS Integers, Sequences, FiniteSets, TLC

VARIABLES
    fs,              \* the four source files: name -> [exists, data]
    backups,         \* content of backup_dir: set of entries
    clock,           \* wall clock in fine units (TicksPerSec per second)
    cfg,             \* loaded configuration (backup.* and execution.*)
    faults,          \* number of I/O failures injected so far
    pc,              \* position of the main thread
    running,         \* Aurora.running
    evolution_count, \* Aurora.evolution_count
    cycle_count,     \* Aurora.cycle_count
    healthy,         \* result of is_system_healthy() in the current tick
    code_lines,      \* evolve_code: lines returned by _read_code
    new_code,        \* evolve_code: the candidate
    outcome,         \* log event that classifies the current tick
    outcomes,        \* outcome of every finished tick, in order
    trace,           \* calls made by the current tick, in order
    tick0,           \* fs, backups, counter, clock, faults when the tick began
    ret,             \* the last public BackupManager call and what it returned
    ops,             \* number of public calls made on a component alone
    snapLog,         \* SpecStore: entries returned by successful snapshots
    snapFs,          \* SpecStore: fs as it was at the last snapshot
    listBefore,      \* SpecStore: list_backups() before the last snapshot
    tick_limit,      \* ticks after which the loop is no longer followed
    shutdowns,          \* number of times _shutdown began
    shutdown_backups,   \* number of create_backup(backup_type="shutdown") calls
    monitor,            \* ResourceMonitor: running, monitor_thread, last_alerts,
                        \* alert_callbacks
    hot_reload_enabled, \* ConfigManager.hot_reload_enabled
    threads,            \* the background threads: thread -> [at, asked, late]
    current_time,       \* time.time(), in seconds
    alerts,             \* alerts raised so far: <<resource, time>>
    breaches,           \* threshold breaches seen so far: <<resource, time>>
    health,             \* is_system_healthy() calls: [under, breach, result]
    sampled,            \* the last check_thresholds call
    mret,               \* the last start_monitoring/stop_monitoring call
    config,             \* ConfigManager.config: the tree in memory
    config_file,        \* the configuration file: kind, tree, mtime
    last_modified,      \* ConfigManager.last_modified
    loading,            \* where a load_config of the reload thread stands
    stable,             \* the tree in memory when that load_config began
    cret,               \* the last ConfigManager call and what it returned
    source,             \* CodeValidator: the old code and the code to judge
    vret,               \* CodeValidator: the last call and what it returned
    error_history,      \* Aurora.error_history: the cycles that raised
    anomaly_checks,     \* the _check_anomalies evaluations, in order
    memory_usage_history, \* Aurora.memory_usage_history: used_mb per check
    anomaly_config,     \* the anomaly_detection section of Aurora.config
    loop_log,           \* _monitor_loop: what each iteration did and logged
    cycle_times         \* Aurora.cycle_times: the duration of every cycle

vars == <<fs, backups, clock, cfg, faults, pc, running, evolution_count,
          cycle_count, healthy, code_lines, new_code, outcome, outcomes,
          trace, tick0, ret, ops, snapLog, snapFs, listBefore, tick_limit,
          shutdowns, shutdown_backups, monitor, hot_reload_enabled, threads,
          current_time, alerts, breaches, health, sampled, mret, config,
          config_file, last_modified, loading, stable, cret, source, vret,
          error_history, anomaly_checks, memory_usage_history, anomaly_config,
          loop_log, cycle_times>>

supVars == <<pc, running, evolution_count, cycle_count, healthy, code_lines,
             new_code, outcome, outcomes, trace, tick0>>

storeVars == <<ops, snapLog, snapFs, listBefore>>

svcVars == <<monitor, hot_reload_enabled, threads, current_time, alerts, breaches,
             health, sampled, mret>>

haltVars == <<shutdowns, shutdown_backups>>

confVars == <<config, config_file, last_modified, loading, stable, cret>>

valVars == <<source, vret>>

anomVars == <<error_history, anomaly_checks, memory_usage_history, anomaly_config,
              loop_log, cycle_times>>

(***************************************************************************)
(* Bounds of the model                                                     *)
(***************************************************************************)
MaxTicks == 2          \* ticks of the supervisor loop
ScenarioTicks == 3     \* ticks of the supervisor loop in the end-to-end scenario
MaxFaults == 1         \* injected I/O failures per run
MaxOps == 3            \* public BackupManager calls per run of SpecStore
MaxBackupsCfg == 2     \* largest configured backup.max_backups
TicksPerSec == 3       \* clock units per second of the timestamp
SmallMaxComments == 2  \* configured execution.max_comments
MaxCalls == 3          \* calls on the monitor and loop iterations per run
MaxMonitorThreads == 2 \* sampling threads spawned per run
MaxLines == 2          \* lines of the code given to the validator
MaxCycles == 3         \* ticks of the loop followed in SpecCycle
LongRunTicks == 1201   \* ticks of the loop followed in SpecLongRun

cycle_interval == 2    \* execution.cycle_interval, in seconds

(***************************************************************************)
(* Background services: the ResourceMonitor, the hot-reload worker and the *)
(* learning thread                                                         *)
(***************************************************************************)
cpu_threshold == 80     \* monitoring.cpu_threshold
memory_threshold == 80  \* monitoring.memory_threshold
disk_threshold == 90    \* monitoring.disk_threshold
check_interval == 30    \* monitoring.check_interval, in seconds
alert_cooldown == 300   \* ResourceMonitor.alert_cooldown, in seconds
cycle_time_threshold == 10    \* anomaly_detection.cycle_time_threshold, seconds
memory_growth_threshold == 50 \* anomaly_detection.memory_growth_threshold, MB
error_rate_threshold == 10    \* anomaly_detection.error_rate_threshold 0.1, percent
memory_window == 10           \* memory_usage_history[-10]
rate_window == 10             \* min(cycle_number, 10)
recent_window == 300          \* errors younger than 300 seconds

\* the order in which check_thresholds looks at the resources
Resources == <<"cpu", "memory", "disk">>

ResourceSet == {Resources[i] : i \in 1..Len(Resources)}

Threshold(r) ==
    CASE r = "cpu" -> cpu_threshold
      [] r = "memory" -> memory_threshold
      [] r = "disk" -> disk_threshold

\* time.time() when the process starts: far above alert_cooldown
Epoch == 10 * alert_cooldown

MonitorThreads == {<<"monitor", k>> : k \in 1..MaxMonitorThreads}

ReloadThread == <<"reload", 1>>

LearningThread == <<"learning", 1>>

ThreadIds == MonitorThreads \cup {ReloadThread, LearningThread}

\* a thread: where it is, whether its loop was asked to stop since it began,
\* and whether it began another iteration after that
Unborn == [at |-> "unborn", asked |-> FALSE, late |-> FALSE]

Alive == [at |-> "alive", asked |-> FALSE, late |-> FALSE]

\* who made the last check_thresholds call: nobody yet, or a direct caller
Nobody == <<"nobody", 0>>

Caller == <<"caller", 0>>

NoSample ==
    [by |-> Nobody, over |-> {}, due |-> {}, fired |-> {}, threw |-> {},
     raised |-> FALSE]

\* earlier: the <<op, was_running>> of the calls made before the last one
NoMonCall ==
    [op |-> "", was_running |-> FALSE, spawned |-> FALSE, raised |-> FALSE,
     earlier |-> {}]

NotSampledYet ==
    /\ current_time = Epoch
    /\ alerts = <<>>
    /\ breaches = <<>>
    /\ health = <<>>
    /\ sampled = NoSample
    /\ mret = NoMonCall

\* ResourceMonitor.__init__ with the callbacks cbs registered, before
\* start_monitoring
MonitorMade(cbs) ==
    [running |-> FALSE, monitor_thread |-> 0,
     last_alerts |-> [r \in ResourceSet |-> 0], alert_callbacks |-> cbs]

\* no Aurora was constructed: a BackupManager or a ResourceMonitor alone
NoServices(cbs) ==
    /\ monitor = MonitorMade(cbs)
    /\ hot_reload_enabled = FALSE
    /\ threads = [t \in ThreadIds |-> Unborn]
    /\ NotSampledYet

\* Aurora.__init__ ran _start_background_services
ServicesStarted ==
    /\ monitor = [MonitorMade({}) EXCEPT !.running = TRUE, !.monitor_thread = 1]
    /\ hot_reload_enabled = TRUE
    /\ threads = [t \in ThreadIds |->
                    IF t \in {<<"monitor", 1>>, ReloadThread, LearningThread}
                    THEN Alive ELSE Unborn]
    /\ NotSampledYet

NotShutDown == shutdowns = 0 /\ shutdown_backups = 0

(***************************************************************************)
(* ConfigManager.  A tree is a function from paths to what is found there: *)
(* a map, a scalar, or nothing.                                            *)
(***************************************************************************)
Keys == {"aurora", "name"}

\* the paths a tree can hold: the root and up to two keys below it
TreePaths == {<<>>} \cup {<<k>> : k \in Keys} \cup {<<k, j>> : k \in Keys, j \in Keys}

\* the dotted paths asked for, as key.split('.') returns them
QueryPaths ==
    (TreePaths \ {<<>>}) \cup {<<k, j, "name">> : k \in Keys, j \in Keys}

MAP == "{}"

ABSENT == "absent"

At(tree, p) == IF p \in TreePaths THEN tree[p] ELSE ABSENT

IsPrefix(p, q) == Len(p) <= Len(q) /\ SubSeq(q, 1, Len(p)) = p

\* the subtree of tree at p, as a tree of its own
Sub(tree, p) == [q \in TreePaths |-> At(tree, p \o q)]

\* a scalar as a tree
Leaf(v) == [q \in TreePaths |-> IF q = <<>> THEN v ELSE ABSENT]

\* {}
EmptyTree == Leaf(MAP)

\* tree with the subtree at p replaced by sub
Graft(tree, p, sub) ==
    [q \in TreePaths |->
        IF IsPrefix(p, q) THEN sub[SubSeq(q, Len(p) + 1, Len(q))] ELSE tree[q]]

\* _get_default_config(): {aurora: {name: "Aurora", ...}}
DefaultTree ==
    Graft(Graft(EmptyTree, <<"aurora">>, EmptyTree),
          <<"aurora", "name">>, Leaf("Aurora"))

\* the documents a configuration file holds: the defaults written out, a
\* name taken from the environment, a scalar where a section is expected,
\* an empty document, and a document that is one scalar
Documents ==
    {DefaultTree,
     Graft(DefaultTree, <<"aurora", "name">>, Leaf("${AURORA_NAME}")),
     Graft(Graft(EmptyTree, <<"aurora">>, Leaf("flat")),
           <<"name">>, Leaf("${AURORA_NAME}")),
     EmptyTree,
     Leaf("flat")}

\* the file is missing, is not YAML, or holds a document
NoFile == [kind |-> "missing", tree |-> EmptyTree, mtime |-> 0]

Malformed(mtime) == [kind |-> "malformed", tree |-> EmptyTree, mtime |-> mtime]

Doc(tree, mtime) == [kind |-> "doc", tree |-> tree, mtime |-> mtime]

ConfigFiles(mtime) ==
    {NoFile, Malformed(mtime)} \cup {Doc(t, mtime) : t \in Documents}

\* os.getenv(env_var, obj): AURORA_NAME is set in the environment
Getenv(v) == IF v = "${AURORA_NAME}" THEN "Nova" ELSE v

\* _expand_env_vars(obj)
_expand_env_vars(tree) == [p \in TreePaths |-> Getenv(tree[p])]

\* the exception that `value = value[k]` raises for each k of keys in turn,
\* or the value reached
RECURSIVE Descend(_, _, _)
Descend(tree, at, keys) ==
    IF keys = <<>> THEN [exc |-> "none", value |-> Sub(tree, at)]
    ELSE IF At(tree, at) # MAP
         THEN [exc |-> "TypeError", value |-> EmptyTree]
         ELSE IF At(tree, Append(at, Head(keys))) = ABSENT
              THEN [exc |-> "KeyError", value |-> EmptyTree]
              ELSE Descend(tree, Append(at, Head(keys)), Tail(keys))

Handled_KeyErrorOnly(exc) == exc = "KeyError"

\* except (KeyError, TypeError)
Handled(exc) == exc \in {"KeyError", "TypeError"}

\* get(key, default) on tree
get(tree, keys, default) ==
    LET r == Descend(tree, <<>>, keys)
    IN  IF r.exc = "none" THEN [value |-> r.value, raised |-> FALSE]
        ELSE IF Handled(r.exc) THEN [value |-> default, raised |-> FALSE]
        ELSE [value |-> default, raised |-> TRUE]

\* set(key, value) on tree: `if k not in config: config[k] = {}` for the
\* keys before the last, then the assignment; a scalar on the way raises
\* TypeError, which set does not catch
RECURSIVE set(_, _, _, _)
set(tree, at, keys, value) ==
    IF At(tree, at) # MAP THEN [tree |-> tree, raised |-> TRUE]
    ELSE IF Len(keys) = 1
         THEN [tree |-> Graft(tree, Append(at, Head(keys)), Leaf(value)),
               raised |-> FALSE]
         ELSE LET child == Append(at, Head(keys))
                  made == IF At(tree, child) = ABSENT
                          THEN Graft(tree, child, EmptyTree) ELSE tree
              IN  set(made, child, Tail(keys), value)

LoadFailed_Reraise(last) ==
    [config |-> EmptyTree, last_modified |-> last, raised |-> TRUE]

\* except Exception: the error is logged and the defaults are taken
LoadFailed(last) ==
    [config |-> DefaultTree, last_modified |-> last, raised |-> FALSE]

\* load_config() run without interruption: the tree and last_modified after
load_config(file, last) ==
    CASE file.kind = "doc" ->
            [config |-> _expand_env_vars(file.tree),
             last_modified |-> file.mtime, raised |-> FALSE]
      [] file.kind = "missing" ->
            [config |-> DefaultTree, last_modified |-> last, raised |-> FALSE]
      [] file.kind = "malformed" -> LoadFailed(last)

NoConfCall ==
    [op |-> "", keys |-> <<>>, value |-> EmptyTree, raised |-> FALSE,
     old |-> EmptyTree, new |-> EmptyTree, file |-> NoFile, during |-> "idle"]

\* ConfigManager.__init__ on file
ConfigLoaded(file) ==
    /\ config_file = file
    /\ config = load_config(file, 0).config
    /\ last_modified = load_config(file, 0).last_modified
    /\ loading = "idle"
    /\ stable = config
    /\ cret = NoConfCall

(***************************************************************************)
(* Files.  A file is absent, or exists with its lines.  A line is a pair   *)
(* <<kind, n>>.                                                            *)
(***************************************************************************)
FileNames == {"memory", "consciousness", "code", "config"}

Absent == [exists |-> FALSE, data |-> <<>>]

File(d) == [exists |-> TRUE, data |-> d]

T == <<"text", 0>>

\* "    # Evolucao #n: <reflection>": an evolution comment
Evo(n) == <<"evo", n>>

\* what _initialize_code writes, as readlines() returns it
initial_code ==
    << T, T, Evo(0), T, T, T, T, <<"def_evolve", 0>>, T, T, T, T, T, T >>

\* a user's code file that defines run and evolve
RunEvolveCode ==
    << <<"def_run", 0>>, T, <<"def_evolve", 0>>, T, T, T, T >>

\* a user's code file with a line that is no Python: ast.parse fails on it
BrokenCode ==
    << <<"def_run", 0>>, T, <<"def_evolve", 0>>, <<"junk", 0>>, T, T, T >>

MemoryData(n) == << <<"mem", n>> >>

ConsciousnessData(n) == << <<"consc", n>> >>

ConfigData == << <<"cfg", 0>> >>

(***************************************************************************)
(* CodeValidator, on code given as its lines                               *)
(***************************************************************************)
Kinds(code) == {code[i][1] : i \in 1..Len(code)}

\* ast.parse succeeds
Parses(code) == "junk" \notin Kinds(code)

\* the lines that are a `def`: at top level, or inside another def
FuncKinds == {"def_run", "def_evolve", "def_awaken", "def_other", "inner_evolve"}

NameOf(k) ==
    CASE k = "def_run" -> "run"
      [] k = "def_evolve" -> "evolve"
      [] k = "def_awaken" -> "awaken"
      [] k = "def_other" -> "other"
      [] k = "inner_evolve" -> "evolve"

\* ast.walk(tree): every FunctionDef, whatever it is nested in
_extract_function_names(code) == {NameOf(k) : k \in Kinds(code) \cap FuncKinds}

\* the lines that are one call: `eval(x)`, `y = eval(x)`, `exec(x)`,
\* `getattr(o, n)`, `open(p)`, `__import__(m)`, `os.system(c)`, `print(x)`.
\* form: the callee is a Name or an Attribute chain; stmt: the call is an
\* expression statement
Calls ==
    [call_eval |-> [target |-> "eval", form |-> "name", stmt |-> TRUE],
     assign_eval |-> [target |-> "eval", form |-> "name", stmt |-> FALSE],
     call_exec |-> [target |-> "exec", form |-> "name", stmt |-> TRUE],
     call_getattr |-> [target |-> "getattr", form |-> "name", stmt |-> FALSE],
     call_open |-> [target |-> "open", form |-> "name", stmt |-> FALSE],
     call_import |-> [target |-> "__import__", form |-> "name", stmt |-> FALSE],
     call_os_system |-> [target |-> "os.system", form |-> "attr", stmt |-> TRUE],
     call_print |-> [target |-> "print", form |-> "name", stmt |-> TRUE]]

\* the lines that are `import m`
Imports == [import_os |-> "os", import_json |-> "json"]

dangerous_imports ==
    {"os.system", "subprocess", "eval", "exec", "compile", "__import__",
     "open", "file", "input", "raw_input"}

dangerous_functions ==
    {"eval", "exec", "compile", "globals", "locals", "vars", "dir", "getattr",
     "setattr", "delattr", "hasattr"}

\* the modules of _is_dangerous_import
dangerous_modules ==
    {"os", "sys", "subprocess", "importlib", "__builtin__", "builtins",
     "ctypes", "marshal", "pickle", "shelve", "tempfile"}

Err(msg, names) == [msg |-> msg, names |-> names]

_is_dangerous_import_Any(module_name) == TRUE

_is_dangerous_import(module_name) == module_name \in dangerous_modules

\* _analyze_node on the statement node of line l: an Import, or an Expr
\* whose value is a call of exec or eval
StatementErrors(l) ==
    IF l[1] \in DOMAIN Imports
    THEN IF _is_dangerous_import(Imports[l[1]])
         THEN <<Err("Potentially dangerous import", {Imports[l[1]]})>>
         ELSE <<>>
    ELSE IF /\ l[1] \in DOMAIN Calls
            /\ Calls[l[1]].stmt /\ Calls[l[1]].form = "name"
            /\ Calls[l[1]].target \in {"exec", "eval"}
         THEN <<Err("Dynamic code execution", {Calls[l[1]].target})>>
         ELSE <<>>

\* _analyze_node on the Call node of line l: a Name is looked up in
\* dangerous_functions, an Attribute chain in dangerous_imports
CallErrors(l) ==
    IF l[1] \notin DOMAIN Calls THEN <<>>
    ELSE LET c == Calls[l[1]]
             listed == IF c.form = "name" THEN dangerous_functions
                       ELSE dangerous_imports
         IN  IF c.target \in listed
             THEN <<Err("Dangerous function call", {c.target})>>
             ELSE <<>>

RECURSIVE Flatten(_)
Flatten(ss) == IF ss = <<>> THEN <<>> ELSE Head(ss) \o Flatten(Tail(ss))

\* _check_ast_safety: ast.walk goes breadth first, the statements before the
\* calls inside them; code that does not parse gives one analysis error
_check_ast_safety(code) ==
    IF ~Parses(code) THEN <<Err("AST analysis error", {})>>
    ELSE Flatten([i \in 1..Len(code) |-> StatementErrors(code[i])])
            \o Flatten([i \in 1..Len(code) |-> CallErrors(code[i])])

\* CodeValidator.__init__ with no validation section in the configuration
DefaultValidator == [enabled |-> TRUE, ast_check |-> TRUE, syntax_check |-> TRUE]

\* the validation sections tried: the defaults, and each switch off
Validators ==
    {DefaultValidator,
     [DefaultValidator EXCEPT !.enabled = FALSE],
     [DefaultValidator EXCEPT !.syntax_check = FALSE],
     [DefaultValidator EXCEPT !.ast_check = FALSE]}

\* after a failed syntax check: validate_code going on to the safety check
SyntaxFailed_GoOn(self, code) ==
    [valid |-> FALSE,
     errors |-> <<Err("Syntax error", {})>> \o _check_ast_safety(code)]

\* `if not syntax_valid: errors.extend(syntax_errors); return False, errors`
SyntaxFailed(self, code) ==
    [valid |-> FALSE, errors |-> <<Err("Syntax error", {})>>]

validate_code(self, code) ==
    IF ~self.enabled THEN [valid |-> TRUE, errors |-> <<>>]
    ELSE IF self.syntax_check /\ ~Parses(code) THEN SyntaxFailed(self, code)
    ELSE LET errors == IF self.ast_check THEN _check_ast_safety(code) ELSE <<>>
         IN [valid |-> Len(errors) = 0, errors |-> errors]

critical_functions == {"evolve", "run", "awaken"}

\* validate_evolution_code that takes old code it cannot parse as code
\* without functions
validate_evolution_code_OldUnparsed(self, old_code, new) ==
    LET v == validate_code(self, new)
        removed_critical ==
            (critical_functions \cap
                (IF Parses(old_code) THEN _extract_function_names(old_code) ELSE {}))
            \ (critical_functions \cap _extract_function_names(new))
    IN  IF ~v.valid THEN v
        ELSE IF ~Parses(new)
        THEN [valid |-> FALSE, errors |-> <<Err("Evolution validation error", {})>>]
        ELSE IF removed_critical # {}
        THEN [valid |-> FALSE,
              errors |-> <<Err("Critical functions removed", removed_critical)>>]
        ELSE [valid |-> TRUE, errors |-> <<>>]

validate_evolution_code(self, old_code, new) ==
    LET v == validate_code(self, new)
        removed_critical ==
            (critical_functions \cap _extract_function_names(old_code))
            \ (critical_functions \cap _extract_function_names(new))
    IN  IF ~v.valid THEN v
        ELSE IF ~Parses(old_code) \/ ~Parses(new)
        THEN [valid |-> FALSE, errors |-> <<Err("Evolution validation error", {})>>]
        ELSE IF removed_critical # {}
        THEN [valid |-> FALSE,
              errors |-> <<Err("Critical functions removed", removed_critical)>>]
        ELSE [valid |-> TRUE, errors |-> <<>>]

\* no CodeValidator call was made
NoValidation ==
    /\ source = [self |-> DefaultValidator, old |-> <<>>, new |-> <<>>]
    /\ vret = [op |-> "", valid |-> FALSE, errors |-> <<>>]

(***************************************************************************)
(* Aurora._check_anomalies: the anomaly detection at the end of a cycle    *)
(***************************************************************************)
\* the anomaly_detection section of _get_default_config
DefaultAnomalyConfig ==
    [kind |-> MAP, enabled |-> TRUE, cycle_time_threshold |-> cycle_time_threshold,
     memory_growth_threshold |-> memory_growth_threshold,
     error_rate_threshold |-> error_rate_threshold]

\* `anomaly_detection:` with nothing under it: the parser gives None
NullSection == [DefaultAnomalyConfig EXCEPT !.kind = "null"]

AnomalyConfigs ==
    {DefaultAnomalyConfig, [DefaultAnomalyConfig EXCEPT !.enabled = FALSE],
     NullSection}

\* get_memory_usage(): psutil.virtual_memory() raises, or used_mb
SamplingFails == [raised |-> TRUE, used_mb |-> 0]

MemorySamples == {[raised |-> FALSE, used_mb |-> mb] : mb \in {100, 200}}

Min(a, b) == IF a < b THEN a ELSE b

\* (now - timestamp).seconds: the seconds of the difference, days left out
SecondsOf(ticks) == (ticks \div TicksPerSec) % 86400

\* recent_errors: the entries of error_history less than 300 seconds old
recent_errors(errors, now) ==
    {i \in 1..Len(errors) : SecondsOf(now - errors[i].timestamp) < recent_window}

\* error_rate > error_threshold, where error_rate is
\* len(recent_errors) / min(cycle_number, 10), or 0 for cycle_number 0
HighErrorRate(section, errors, cycle_number, now) ==
    /\ cycle_number > 0
    /\ Cardinality(recent_errors(errors, now)) * 100 >
           section.error_rate_threshold * Min(cycle_number, rate_window)

\* _check_anomalies(cycle_number, duration): the anomalies it logs, the
\* memory_usage_history it leaves, and whether it raised. duration and now
\* are in clock units; memory is the sample, or SamplingFails
_check_anomalies(section, cycle_number, duration, memory, history, errors, now) ==
    IF section.kind # MAP
    THEN [emitted |-> {}, history |-> history, evaluated |-> FALSE, raised |-> TRUE]
    ELSE IF ~section.enabled
    THEN [emitted |-> {}, history |-> history, evaluated |-> FALSE, raised |-> FALSE]
    ELSE LET slow == IF duration > section.cycle_time_threshold * TicksPerSec
                     THEN {"long_cycle_time"} ELSE {}
             after == Append(history, memory.used_mb)
             growth == IF /\ Len(after) > memory_window
                          /\ memory.used_mb - after[Len(after) - memory_window + 1] >
                                 section.memory_growth_threshold
                       THEN {"memory_growth"} ELSE {}
             rate == IF HighErrorRate(section, errors, cycle_number, now)
                     THEN {"high_error_rate"} ELSE {}
         IN  IF memory.raised
             THEN [emitted |-> slow, history |-> history, evaluated |-> FALSE,
                   raised |-> TRUE]
             ELSE [emitted |-> slow \cup growth \cup rate, history |-> after,
                   evaluated |-> TRUE, raised |-> FALSE]

\* run: `if self.cycle_count % 100 == 0: self._periodic_cleanup()`
cleanup_period == 100

\* _periodic_cleanup: a list longer than the limit is cut to its newest part
error_history_limit == 100
error_history_kept == 50
cycle_times_limit == 1000
cycle_times_kept == 500
memory_history_limit == 1000
memory_history_kept == 500

\* xs[-kept:] when len(xs) > limit, xs otherwise
Newest(xs, limit, kept) ==
    IF Len(xs) > limit THEN SubSeq(xs, Len(xs) - kept + 1, Len(xs)) ELSE xs

\* Aurora._periodic_cleanup on the three histories
_periodic_cleanup(errors, times, history) ==
    [error_history |-> Newest(errors, error_history_limit, error_history_kept),
     cycle_times |-> Newest(times, cycle_times_limit, cycle_times_kept),
     memory_usage_history |->
         Newest(history, memory_history_limit, memory_history_kept)]

\* the histories at the end of the with-block of cycle n: _periodic_cleanup
\* has run when the body reached `if self.cycle_count % 100 == 0` in a cycle
\* whose number is a multiple of 100; an unhealthy tick has left the block
\* with `continue` and a failed body with its exception
AfterBody(n, body, errors, times, history) ==
    IF body \notin {"skipped_unhealthy", "failed"} /\ n % cleanup_period = 0
    THEN _periodic_cleanup(errors, times, history)
    ELSE [error_history |-> errors, cycle_times |-> times,
          memory_usage_history |-> history]

\* Aurora.__init__: error_history = [], memory_usage_history = [], no cycle
\* has ended
NoCycles ==
    /\ error_history = <<>> /\ anomaly_checks = <<>> /\ memory_usage_history = <<>>
    /\ loop_log = <<>>
    /\ cycle_times = <<>>

NoAnomalies == NoCycles /\ anomaly_config = DefaultAnomalyConfig

\* the parts of the state that a specification about another component
\* leaves as they are after construction from a file of defaults
Elsewhere == ConfigLoaded(Doc(DefaultTree, 1)) /\ NoValidation /\ NoAnomalies

(***************************************************************************)
(* BackupManager: the backup directory                                     *)
(***************************************************************************)
\* names of the copies inside a backup, in the order create_backup makes them
BackupNames == <<"aurora_memory.json", "aurora_consciousness.py",
                 "aurora_self_writing.py", "config.yaml">>

BackupNameSet == {BackupNames[i] : i \in 1..Len(BackupNames)}

\* the source file that create_backup copies to each backup name
SourceOf(b) ==
    CASE b = "aurora_memory.json" -> "memory"
      [] b = "aurora_consciousness.py" -> "consciousness"
      [] b = "aurora_self_writing.py" -> "code"
      [] b = "config.yaml" -> "config"

\* DestOf with the destinations of the code and the consciousness exchanged
DestOf_Swapped(b) ==
    CASE b = "aurora_memory.json" -> "memory"
      [] b = "aurora_consciousness.py" -> "code"
      [] b = "aurora_self_writing.py" -> "consciousness"
      [] b = "config.yaml" -> "config"

\* the destination to which _restore_from_directory copies each backup name
DestOf(b) ==
    CASE b = "aurora_memory.json" -> "memory"
      [] b = "aurora_consciousness.py" -> "consciousness"
      [] b = "aurora_self_writing.py" -> "code"
      [] b = "config.yaml" -> "config"

\* evolution_count=None of create_backup
NoneCount == -1

\* the points at which an I/O call of create_backup can raise
FailPoints ==
    {<<"mkdir", "">>, <<"meta", "">>, <<"compress", "">>, <<"rmtree", "">>,
     <<"cleanup", "">>} \cup {<<"copy", b>> : b \in BackupNameSet}

NoFail == <<"none", "">>

\* f"aurora_backup_{timestamp}_evolution_{evolution_count}" or
\* f"aurora_backup_{timestamp}_{backup_type}"
BackupName(ts, ec, type) ==
    IF ec # NoneCount
    THEN [ts |-> ts, kind |-> "evolution", n |-> ec]
    ELSE [ts |-> ts, kind |-> type, n |-> 0]

Path(name, gz) == [ts |-> name.ts, kind |-> name.kind, n |-> name.n, gz |-> gz]

None == [ts |-> -1, kind |-> "None", n |-> 0, gz |-> FALSE]

PathOf(e) == [ts |-> e.ts, kind |-> e.kind, n |-> e.n, gz |-> e.gz]

NoMeta(st) ==
    [state |-> st, timestamp |-> 0, evolution_count |-> NoneCount,
     backup_type |-> "", files |-> <<>>, size_bytes |-> 0]

NoFiles == [b \in BackupNameSet |-> Absent]

Lookup(dir, p) == {e \in dir : PathOf(e) = p}

RECURSIVE SumSizes(_, _)
SumSizes(files, names) ==
    IF names = <<>> THEN 0
    ELSE (IF files[Head(names)].exists THEN Len(files[Head(names)].data) ELSE 0)
         + SumSizes(files, Tail(names))

\* what list_backups reports of one item of backup_dir; the sidecar is read
\* for directories only
BackupInfo(e) ==
    LET m == IF ~e.gz /\ e.meta.state = "ok" THEN e.meta ELSE NoMeta("absent")
    IN [path |-> PathOf(e), created |-> e.mtime, compressed |-> e.gz,
        timestamp |-> m.timestamp, evolution_count |-> m.evolution_count,
        backup_type |-> m.backup_type, files |-> m.files,
        size_bytes |-> m.size_bytes]

\* SortNewestFirst without reverse=True
RECURSIVE SortOldestFirst(_)
SortOldestFirst(S) ==
    IF S = {} THEN <<>>
    ELSE LET oldest == CHOOSE e \in S : \A o \in S : e.mtime <= o.mtime
         IN <<oldest>> \o SortOldestFirst(S \ {oldest})

\* backups.sort(key=created, reverse=True)
RECURSIVE SortNewestFirst(_)
SortNewestFirst(S) ==
    IF S = {} THEN <<>>
    ELSE LET newest == CHOOSE e \in S : \A o \in S : o.mtime <= e.mtime
         IN <<newest>> \o SortNewestFirst(S \ {newest})

ListEntries(dir) == SortNewestFirst(dir)

list_backups(dir) ==
    LET es == ListEntries(dir) IN [i \in 1..Len(es) |-> BackupInfo(es[i])]

\* backups[max_backups:] are removed; a failing removal is caught and logged
\* and nothing after it is removed
_cleanup_old_backups(dir, max, fail) ==
    LET es == ListEntries(dir)
        old == {es[i] : i \in {j \in 1..Len(es) : j > max}}
    IN IF Len(es) > max /\ fail # <<"cleanup", "">> THEN dir \ old ELSE dir

\* the copies made before the failing one (all of them without a failure)
Copied(files, fail) ==
    LET bad == {i \in 1..Len(BackupNames) :
                    fail = <<"copy", BackupNames[i]>>
                    /\ files[SourceOf(BackupNames[i])].exists}
        stop == IF bad = {} THEN Len(BackupNames) + 1 ELSE CHOOSE i \in bad : TRUE
    IN {BackupNames[i] : i \in {j \in 1..Len(BackupNames) :
                                  j < stop /\ files[SourceOf(BackupNames[j])].exists}}

CopyFailed(files, fail) ==
    \E b \in BackupNameSet : fail = <<"copy", b>> /\ files[SourceOf(b)].exists

FilesBackedUp(files) ==
    SelectSeq(BackupNames, LAMBDA b : files[SourceOf(b)].exists)

\* create_backup(evolution_count, backup_type) on directory dir at time now;
\* fail is the I/O call that raises.  Result: the directory afterwards, the
\* returned path (None on failure) and the time afterwards.
create_backup(dir, files, c, now, ec, type, fail) ==
    LET ts == now \div TicksPerSec
        name == BackupName(ts, ec, type)
        t1 == now + 1
        t2 == now + 2
        old == Lookup(dir, Path(name, FALSE))
        base == IF old = {}
                THEN [ts |-> ts, kind |-> name.kind, n |-> name.n, gz |-> FALSE,
                      mtime |-> t1, intact |-> TRUE, hasdir |-> TRUE,
                      files |-> NoFiles, meta |-> NoMeta("absent")]
                ELSE CHOOSE e \in old : TRUE
        rest == dir \ old
        done == Copied(files, fail)
        copies == [b \in BackupNameSet |->
                     IF b \in done THEN files[SourceOf(b)] ELSE base.files[b]]
        \* a directory's mtime changes when a name is created in it
        grew == \E b \in done : ~base.files[b].exists
        withFiles == [base EXCEPT !.files = copies,
                                  !.mtime = IF grew THEN t1 ELSE @]
        metaOk == [state |-> "ok", timestamp |-> ts, evolution_count |-> ec,
                   backup_type |-> type, files |-> FilesBackedUp(files),
                   size_bytes |-> SumSizes(copies, FilesBackedUp(files))]
        metaNew == base.meta.state = "absent"
        withMeta(m) == [withFiles EXCEPT !.meta = m,
                                         !.mtime = IF metaNew THEN t1 ELSE @]
        full == withMeta(metaOk)
        oldGz == Lookup(rest, Path(name, TRUE))
        tarball == [full EXCEPT !.gz = TRUE, !.mtime = t2]
        torn == [full EXCEPT !.gz = TRUE, !.mtime = t2, !.intact = FALSE,
                             !.files = NoFiles, !.meta = NoMeta("corrupt")]
        Res(d, r, t) == [backups |-> d, ret |-> r, clock |-> t]
    IN  IF ~c.enabled THEN Res(dir, None, now)
        ELSE IF fail = <<"mkdir", "">> THEN Res(dir, None, t1)
        ELSE IF CopyFailed(files, fail) THEN Res(rest \cup {withFiles}, None, t1)
        ELSE IF fail = <<"meta", "">>
             THEN Res(rest \cup {withMeta(NoMeta("corrupt"))}, None, t1)
        ELSE IF ~c.compression
             THEN Res(_cleanup_old_backups(rest \cup {full}, c.max_backups, fail),
                      Path(name, FALSE), t1)
        ELSE IF fail = <<"compress", "">>
             THEN Res(_cleanup_old_backups(((rest \ oldGz) \cup {full, torn}),
                                           c.max_backups, fail),
                      Path(name, FALSE), t2)
        ELSE IF fail = <<"rmtree", "">>
             THEN Res((rest \ oldGz) \cup {full, tarball}, None, t2)
        ELSE Res(_cleanup_old_backups((rest \ oldGz) \cup {tarball},
                                      c.max_backups, fail),
                 Path(name, TRUE), t2)

\* "except Exception as e: ... return False" around the body of restore_backup
\* and of _restore_from_directory: the files as they are when the exception
\* is raised, and False
Caught_Reraise(files) == [fs |-> files, ok |-> FALSE, raised |-> TRUE]

Caught(files) == [fs |-> files, ok |-> FALSE, raised |-> FALSE]

\* restore_backup(backup_path); fail is the copy that raises.  Result: the
\* files afterwards, the returned boolean, and whether an exception left the
\* call.
_restore_from_directory(e, files, fail) ==
    LET bad == {i \in 1..Len(BackupNames) :
                    fail = <<"copy", BackupNames[i]>> /\ e.files[BackupNames[i]].exists}
        stop == IF bad = {} THEN Len(BackupNames) + 1 ELSE CHOOSE i \in bad : TRUE
        done == {BackupNames[i] : i \in {j \in 1..Len(BackupNames) :
                                  j < stop /\ e.files[BackupNames[j]].exists}}
        after == [f \in FileNames |->
                    IF \E b \in done : DestOf(b) = f
                    THEN e.files[CHOOSE b \in done : DestOf(b) = f]
                    ELSE files[f]]
    IN  IF e.meta.state = "corrupt" THEN Caught(files)
        ELSE IF bad # {} THEN Caught(after)
        ELSE [fs |-> after, ok |-> TRUE, raised |-> FALSE]

restore_backup(dir, files, p, fail) ==
    LET found == Lookup(dir, p)
        e == CHOOSE x \in found : TRUE
    IN  IF found = {} THEN [fs |-> files, ok |-> FALSE, raised |-> FALSE]
        ELSE IF p.gz /\ ~e.intact THEN Caught(files)
        ELSE IF p.gz /\ ~e.hasdir THEN [fs |-> files, ok |-> FALSE, raised |-> FALSE]
        ELSE _restore_from_directory(e, files, fail)

\* what a path points at: nothing, an archive that cannot be read, an archive
\* without a directory, a backup whose sidecar cannot be read, or a backup
\* that can be restored
TargetOf(dir, p) ==
    LET found == Lookup(dir, p)
        e == CHOOSE x \in found : TRUE
    IN  IF found = {} THEN "missing"
        ELSE IF p.gz /\ ~e.intact THEN "unreadable"
        ELSE IF p.gz /\ ~e.hasdir THEN "no_directory"
        ELSE IF e.meta.state = "corrupt" THEN "corrupt_sidecar"
        ELSE "restorable"

(***************************************************************************)
(* SpecStore: the public methods of one BackupManager, called directly     *)
(***************************************************************************)
V(k) == << <<"v", k>> >>

Configs ==
    [enabled : {TRUE}, before_evolution : BOOLEAN, max_backups : 0..MaxBackupsCfg,
     compression : BOOLEAN, max_comments : {SmallMaxComments}]

\* ret.fresh: the call restores the archive that the call before it returned;
\* ret.dirty: the files had changed since that snapshot
NoCall ==
    [op |-> "", path |-> None, ok |-> FALSE, fresh |-> FALSE, dirty |-> FALSE,
     raised |-> FALSE, target |-> ""]

NoTick ==
    [fs |-> [f \in FileNames |-> Absent], backups |-> {}, evolution_count |-> 0,
     clock |-> 0, faults |-> 0]

\* the failure injected into one call: none, or one more of the budget
FailsOf(points) == {NoFail} \cup (IF faults < MaxFaults THEN points ELSE {})

Fails == FailsOf(FailPoints)

Charge(fail) == faults' = IF fail = NoFail THEN faults ELSE faults + 1

\* an injected failure counts when the call it names is made: the file to
\* copy exists, compression is on, there is an old backup to remove
Raises(fail, files, c, r, r0) ==
    \/ fail[1] \in {"none", "mkdir", "meta"}
    \/ fail[1] = "copy" /\ CopyFailed(files, fail)
    \/ fail[1] \in {"compress", "rmtree"} /\ c.compression
    \/ fail[1] = "cleanup" /\ r # r0

\* the source files at the start: all four, all but the consciousness file
\* (which a first run has not written yet), or none
StoreFiles ==
    {f \in [FileNames -> {Absent, File(V(0))}] :
        {n \in FileNames : ~f[n].exists} \in {{}, {"consciousness"}, FileNames}}

InitStore ==
    /\ fs \in StoreFiles
    /\ backups = {}
    /\ clock = 0
    /\ cfg \in {c \in Configs : c.before_evolution}
    /\ faults = 0
    /\ pc = "api"
    /\ running = FALSE
    /\ evolution_count = 0
    /\ cycle_count = 0
    /\ healthy = TRUE
    /\ code_lines = <<>>
    /\ new_code = <<>>
    /\ outcome = ""
    /\ outcomes = <<>>
    /\ trace = <<>>
    /\ tick0 = NoTick
    /\ ret = NoCall
    /\ ops = 0
    /\ snapLog = <<>>
    /\ snapFs = fs
    /\ listBefore = <<>>
    /\ tick_limit = 0
    /\ NoServices({})
    /\ NotShutDown
    /\ Elsewhere

\* backup_manager.create_backup(evolution_count=ec, backup_type="auto")
Snapshot(ec, fail) ==
    LET r == create_backup(backups, fs, cfg, clock, ec, "auto", fail)
        r0 == create_backup(backups, fs, cfg, clock, ec, "auto", NoFail)
    IN  /\ pc = "api" /\ ops < MaxOps
        /\ Raises(fail, fs, cfg, r, r0)
        /\ backups' = r.backups
        /\ clock' = r.clock
        /\ ret' = [op |-> "create_backup", path |-> r.ret, ok |-> r.ret # None,
                   fresh |-> FALSE, dirty |-> FALSE, raised |-> FALSE, target |-> ""]
        /\ snapLog' = IF r.ret # None THEN Append(snapLog, r.ret) ELSE snapLog
        /\ snapFs' = fs
        /\ listBefore' = list_backups(backups)
        /\ ops' = ops + 1
        /\ Charge(fail)
        /\ UNCHANGED <<fs, cfg, tick_limit, supVars,
                   svcVars, haltVars,
                   confVars, valVars, anomVars>>

\* backup_manager.restore_backup(p)
Restore(p, fail) ==
    LET r == restore_backup(backups, fs, p, fail)
        r0 == restore_backup(backups, fs, p, NoFail)
    IN  /\ pc = "api" /\ ops < MaxOps
        /\ (fail = NoFail \/ r # r0)
        /\ fs' = r.fs
        /\ ret' = [op |-> "restore_backup", path |-> p, ok |-> r.ok,
                   fresh |-> ret.op = "create_backup" /\ ret.ok /\ ret.path = p,
                   dirty |-> \E f \in FileNames : snapFs[f].exists /\ fs[f] # snapFs[f],
                   raised |-> r.raised, target |-> TargetOf(backups, p)]
        /\ ops' = ops + 1
        /\ Charge(fail)
        /\ UNCHANGED <<backups, clock, cfg, tick_limit, supVars, snapLog, snapFs, listBefore,
                   svcVars, haltVars,
                   confVars, valVars, anomVars>>

\* the files change between a snapshot and the next call (a change that no
\* call follows is not followed either)
WriteFile(f) ==
    /\ pc = "api" /\ ops + 1 < MaxOps
    /\ ret.op = "create_backup" /\ ret.ok
    /\ fs[f] # File(V(1))
    /\ fs' = [fs EXCEPT ![f] = File(V(1))]
    /\ ops' = ops + 1
    /\ UNCHANGED <<backups, clock, cfg, tick_limit, faults, ret, supVars,
                   snapLog, snapFs, listBefore,
                   svcVars, haltVars,
                   confVars, valVars, anomVars>>

DeleteFile(f) ==
    /\ pc = "api" /\ ops + 1 < MaxOps
    /\ ret.op = "create_backup" /\ ret.ok
    /\ fs[f].exists
    /\ fs' = [fs EXCEPT ![f] = Absent]
    /\ ops' = ops + 1
    /\ UNCHANGED <<backups, clock, cfg, tick_limit, faults, ret, supVars,
                   snapLog, snapFs, listBefore,
                   svcVars, haltVars,
                   confVars, valVars, anomVars>>

\* a second or more passes between two calls
TimePasses ==
    /\ pc = "api" /\ ops + 1 < MaxOps
    /\ clock' = (clock \div TicksPerSec + 1) * TicksPerSec
    /\ ops' = ops + 1
    /\ UNCHANGED <<fs, backups, cfg, tick_limit, faults, ret, supVars,
                   snapLog, snapFs, listBefore,
                   svcVars, haltVars,
                   confVars, valVars, anomVars>>

NextStore ==
    \/ \E ec \in {NoneCount, 0}, fail \in Fails : Snapshot(ec, fail)
    \/ \E p \in {PathOf(e) : e \in backups} \cup {ret.path},
          fail \in FailsOf({<<"copy", b>> : b \in BackupNameSet}) : Restore(p, fail)
    \/ \E f \in FileNames : WriteFile(f)
    \/ \E f \in FileNames : DeleteFile(f)
    \/ TimePasses

SpecStore == InitStore /\ [][NextStore]_vars

TypeStore == \A e \in backups : \A o \in backups : e.mtime = o.mtime => e = o

(***************************************************************************)
(* Aurora.evolve_code: the candidate                                       *)
(***************************************************************************)
\* what the reflection puts into the inserted line: one comment line, or a
\* comment line whose text holds a line break followed by more text
Reflections == {"plain", "junk", "eval"}

Inserted(n, refl) ==
    CASE refl = "plain" -> << Evo(n) >>
      [] refl = "junk" -> << Evo(n), <<"junk", 0>> >>
      [] refl = "eval" -> << Evo(n), <<"call_eval", 0>> >>

\* list.insert(-3, x)
InsertAt(code, ins) ==
    LET at == IF Len(code) > 3 THEN Len(code) - 3 ELSE 0
    IN SubSeq(code, 1, at) \o ins \o SubSeq(code, at + 1, Len(code))

RECURSIVE KeepRecent(_, _, _)
\* drops the first `drop` evolution comments of code; seen counts those met
KeepRecent(code, seen, drop) ==
    IF code = <<>> THEN <<>>
    ELSE IF Head(code)[1] = "evo"
         THEN (IF seen + 1 > drop THEN <<Head(code)>> ELSE <<>>)
              \o KeepRecent(Tail(code), seen + 1, drop)
         ELSE <<Head(code)>> \o KeepRecent(Tail(code), seen, drop)

Candidate(code, n, refl, max_comments) ==
    LET inserted == InsertAt(code, Inserted(n, refl))
        comment_lines == SelectSeq(inserted, LAMBDA l : l[1] = "evo")
    IN  IF Len(comment_lines) > max_comments
        THEN KeepRecent(inserted, 0, max_comments \div 2)
        ELSE inserted

(***************************************************************************)
(* Spec: Aurora.run, one tick after the other                              *)
(***************************************************************************)
\* the state after Aurora.__init__, apart from the files, the configuration
\* and what the run is allowed
Assembled ==
    /\ backups = {}
    /\ clock = 0
    /\ pc = "start"
    /\ running = FALSE
    /\ evolution_count = 0
    /\ cycle_count = 0
    /\ healthy = TRUE
    /\ code_lines = <<>>
    /\ new_code = <<>>
    /\ outcome = ""
    /\ outcomes = <<>>
    /\ trace = <<>>
    /\ tick0 = NoTick
    /\ ret = NoCall
    /\ ops = 0
    /\ snapLog = <<>>
    /\ snapFs = [f \in FileNames |-> Absent]
    /\ listBefore = <<>>
    /\ ServicesStarted
    /\ NotShutDown

\* Aurora.__init__ with the configuration file of defaults
Constructed == Assembled /\ Elsewhere

FirstRun(code) ==
    [memory |-> File(MemoryData(0)), consciousness |-> Absent, code |-> code,
     config |-> File(ConfigData)]

Init ==
    /\ fs \in {FirstRun(c) : c \in {Absent, File(RunEvolveCode), File(BrokenCode)}}
    /\ cfg \in {c \in Configs : c.max_backups = MaxBackupsCfg}
    /\ faults = 0
    /\ tick_limit = MaxTicks
    /\ Constructed

\* the end-to-end scenario: code that defines run and evolve, max_backups = 2,
\* no compression, and no I/O call that fails (the failures are spent)
InitScenario ==
    /\ fs = FirstRun(File(RunEvolveCode))
    /\ cfg \in {c \in Configs : c.max_backups = 2 /\ ~c.compression}
    /\ faults = MaxFaults
    /\ tick_limit = ScenarioTicks
    /\ Constructed

apiVars == <<ret, ops, snapLog, snapFs, listBefore>>

Log(step, n) == trace' = Append(trace, <<step, n>>)

EndTick(o) == outcome' = o /\ outcomes' = Append(outcomes, o)

\* run: running = True; awaken() writes the consciousness file and the memory
Awaken ==
    /\ pc = "start"
    /\ running' = TRUE
    /\ fs' = [fs EXCEPT !.consciousness = File(ConsciousnessData(evolution_count)),
                        !.memory = File(MemoryData(evolution_count))]
    /\ pc' = "loop"
    /\ UNCHANGED <<backups, clock, cfg, tick_limit, faults, evolution_count, cycle_count,
                   healthy, code_lines, new_code, outcome, outcomes, trace,
                   tick0, apiVars,
                   svcVars, haltVars,
                   confVars, valVars, anomVars>>

\* TickStart without the `continue` of the unhealthy branch
TickStart_NoSkip(h) ==
    /\ pc = "loop" /\ running /\ cycle_count < tick_limit
    /\ cycle_count' = cycle_count + 1
    /\ healthy' = h
    /\ tick0' = [fs |-> fs, backups |-> backups, evolution_count |-> evolution_count,
                 clock |-> clock, faults |-> faults]
    /\ trace' = <<>>
    /\ code_lines' = <<>>
    /\ new_code' = <<>>
    /\ outcome' = IF h THEN "" ELSE "skipped_unhealthy"
    /\ pc' = "pre_backup"
    /\ UNCHANGED <<fs, backups, clock, cfg, tick_limit, faults, running, evolution_count,
                   outcomes, apiVars,
                   svcVars, haltVars,
                   confVars, valVars, anomVars>>

\* while self.running: cycle_count += 1; is_system_healthy() returns h
TickStart(h) ==
    /\ pc = "loop" /\ running /\ cycle_count < tick_limit
    /\ cycle_count' = cycle_count + 1
    /\ healthy' = h
    /\ tick0' = [fs |-> fs, backups |-> backups, evolution_count |-> evolution_count,
                 clock |-> clock, faults |-> faults]
    /\ trace' = <<>>
    /\ code_lines' = <<>>
    /\ new_code' = <<>>
    /\ outcome' = IF h THEN "" ELSE "skipped_unhealthy"
    /\ pc' = IF h THEN "pre_backup" ELSE "backoff"
    /\ UNCHANGED <<fs, backups, clock, cfg, tick_limit, faults, running, evolution_count,
                   outcomes, apiVars,
                   svcVars, haltVars,
                   confVars, valVars, anomVars>>

\* time.sleep(cycle_interval * 2); continue
Backoff ==
    /\ pc = "backoff"
    /\ clock' = clock + 2 * cycle_interval * TicksPerSec
    /\ EndTick("skipped_unhealthy")
    /\ pc' = "loop"
    /\ UNCHANGED <<fs, backups, cfg, tick_limit, faults, running, evolution_count, cycle_count,
                   healthy, code_lines, new_code, trace, tick0, apiVars,
                   svcVars, haltVars,
                   confVars, valVars, anomVars>>

\* PreBackup in which a failed backup ends evolve_code
PreBackup_Gate(fail) ==
    LET r == create_backup(backups, fs, cfg, clock, evolution_count,
                           "pre_evolution", fail)
    IN  /\ pc = "pre_backup"
        /\ IF cfg.before_evolution
           THEN /\ backups' = r.backups
                /\ clock' = r.clock
                /\ Log(IF r.ret # None THEN "pre_backup" ELSE "pre_backup_failed",
                       evolution_count)
                /\ Charge(fail)
                /\ IF r.ret # None
                   THEN pc' = "read" /\ UNCHANGED <<outcome, outcomes>>
                   ELSE pc' = "sleep" /\ EndTick("aborted")
           ELSE /\ fail = NoFail
                /\ pc' = "read"
                /\ UNCHANGED <<backups, clock, trace, faults, outcome, outcomes>>
        /\ UNCHANGED <<fs, cfg, tick_limit, running, evolution_count, cycle_count, healthy,
                       code_lines, new_code, tick0, apiVars,
                   svcVars, haltVars,
                   confVars, valVars, anomVars>>

\* evolve_code: the backup before the evolution
PreBackup(fail) ==
    LET r == create_backup(backups, fs, cfg, clock, evolution_count,
                           "pre_evolution", fail)
        r0 == create_backup(backups, fs, cfg, clock, evolution_count,
                            "pre_evolution", NoFail)
    IN  /\ pc = "pre_backup"
        /\ Raises(fail, fs, cfg, r, r0)
        /\ IF cfg.before_evolution
           THEN /\ backups' = r.backups
                /\ clock' = r.clock
                /\ Log(IF r.ret # None THEN "pre_backup" ELSE "pre_backup_failed",
                       evolution_count)
                /\ Charge(fail)
           ELSE /\ fail = NoFail
                /\ UNCHANGED <<backups, clock, trace, faults>>
        /\ pc' = "read"
        /\ UNCHANGED <<fs, cfg, tick_limit, running, evolution_count, cycle_count, healthy,
                       code_lines, new_code, outcome, outcomes, tick0, apiVars,
                   svcVars, haltVars,
                   confVars, valVars, anomVars>>

\* evolve_code: _read_code (which writes the initial code when there is no
\* code file) and the construction of the candidate
ReadCode(refl, fail) ==
    LET created == ~fs.code.exists
        file == IF created THEN File(initial_code) ELSE fs.code
        lines == IF fail = NoFail THEN file.data ELSE <<>>
    IN  /\ pc = "read"
        /\ fs' = [fs EXCEPT !.code = file]
        /\ code_lines' = lines
        /\ Charge(fail)
        /\ IF lines = <<>>
           THEN /\ new_code' = <<>>
                /\ trace' = IF created THEN Append(trace, <<"init_write", 0>>) ELSE trace
                /\ EndTick("failed")
                /\ pc' = "sleep"
           ELSE /\ new_code' = Candidate(lines, evolution_count + 1, refl,
                                         cfg.max_comments)
                /\ trace' = IF created THEN Append(trace, <<"init_write", 0>>) ELSE trace
                /\ UNCHANGED <<outcome, outcomes>>
                /\ pc' = "validate"
        /\ UNCHANGED <<backups, clock, cfg, tick_limit, running, evolution_count, cycle_count,
                       healthy, tick0, apiVars,
                   svcVars, haltVars,
                   confVars, valVars, anomVars>>

\* Validate without the `if not is_valid: return False`
Validate_Unchecked ==
    LET v == validate_evolution_code(DefaultValidator, code_lines, new_code)
    IN  /\ pc = "validate"
        /\ Log("validate", IF v.valid THEN 1 ELSE 0)
        /\ pc' = "write"
        /\ UNCHANGED <<fs, backups, clock, cfg, tick_limit, faults, running, evolution_count,
                       cycle_count, healthy, code_lines, new_code, outcome,
                       outcomes, tick0, apiVars,
                   svcVars, haltVars,
                   confVars, valVars, anomVars>>

\* Validate after which the backup is made before the candidate is written
Validate_SkipWrite ==
    LET v == validate_evolution_code(DefaultValidator, code_lines, new_code)
    IN  /\ pc = "validate"
        /\ Log("validate", IF v.valid THEN 1 ELSE 0)
        /\ IF v.valid
           THEN /\ pc' = "post_backup"
                /\ UNCHANGED <<outcome, outcomes>>
           ELSE /\ pc' = "sleep"
                /\ EndTick("rejected")
        /\ UNCHANGED <<fs, backups, clock, cfg, tick_limit, faults, running, evolution_count,
                       cycle_count, healthy, code_lines, new_code, tick0, apiVars,
                   svcVars, haltVars,
                   confVars, valVars, anomVars>>

\* evolve_code: validate_evolution_code(old, candidate)
Validate ==
    LET v == validate_evolution_code(DefaultValidator, code_lines, new_code)
    IN  /\ pc = "validate"
        /\ Log("validate", IF v.valid THEN 1 ELSE 0)
        /\ IF v.valid
           THEN /\ pc' = "write"
                /\ UNCHANGED <<outcome, outcomes>>
           ELSE /\ pc' = "sleep"
                /\ EndTick("rejected")
        /\ UNCHANGED <<fs, backups, clock, cfg, tick_limit, faults, running, evolution_count,
                       cycle_count, healthy, code_lines, new_code, tick0, apiVars,
                   svcVars, haltVars,
                   confVars, valVars, anomVars>>

\* evolve_code after _write_code has returned: the counter, the memory
Count ==
    /\ evolution_count' = evolution_count + 1
    /\ outcome' = "applied"
    /\ pc' = "post_backup"

\* _write_code: open(code_file, 'w') truncates the file, or raises
WriteOpen(fail) ==
    /\ pc = "write"
    /\ Charge(fail)
    /\ IF fail = NoFail
       THEN /\ fs' = [fs EXCEPT !.code = File(<<>>)]
            /\ Log("write_open", 0)
            /\ pc' = "writelines"
            /\ UNCHANGED <<evolution_count, outcome>>
       ELSE /\ fs' = [fs EXCEPT !.memory = File(MemoryData(evolution_count + 1))]
            /\ Log("write_failed", 0)
            /\ Count
    /\ UNCHANGED <<backups, clock, cfg, tick_limit, running, cycle_count, healthy, code_lines,
                   new_code, outcomes, tick0, apiVars,
                   svcVars, haltVars,
                   confVars, valVars, anomVars>>

\* the lengths at which a failing writelines stops
PartialLens(n) == {0, n \div 2}

\* _write_code: f.writelines(code_lines) writes all lines, or k of them and
\* raises; the exception is logged and evolve_code goes on
WriteLines(fail, k) ==
    /\ pc = "writelines"
    /\ k \in IF fail = NoFail THEN {Len(new_code)} ELSE PartialLens(Len(new_code))
    /\ Charge(fail)
    /\ fs' = [fs EXCEPT !.code = File(SubSeq(new_code, 1, k)),
                        !.memory = File(MemoryData(evolution_count + 1))]
    /\ Log(IF fail = NoFail THEN "write_done" ELSE "write_failed", k)
    /\ Count
    /\ UNCHANGED <<backups, clock, cfg, tick_limit, running, cycle_count, healthy, code_lines,
                   new_code, outcomes, tick0, apiVars,
                   svcVars, haltVars,
                   confVars, valVars, anomVars>>

\* PostBackup that passes the counter the tick began with
PostBackup_StaleCount(fail) ==
    LET r == create_backup(backups, fs, cfg, clock, tick0.evolution_count,
                           "post_evolution", fail)
    IN  /\ pc = "post_backup"
        /\ backups' = r.backups
        /\ clock' = r.clock
        /\ Log(IF r.ret # None THEN "post_backup" ELSE "post_backup_failed",
               tick0.evolution_count)
        /\ Charge(fail)
        /\ outcomes' = Append(outcomes, outcome)
        /\ pc' = "sleep"
        /\ UNCHANGED <<fs, cfg, tick_limit, running, evolution_count, cycle_count, healthy,
                       code_lines, new_code, outcome, tick0, apiVars,
                   svcVars, haltVars,
                   confVars, valVars, anomVars>>

\* run: the backup after a successful evolve_code
PostBackup(fail) ==
    LET r == create_backup(backups, fs, cfg, clock, evolution_count,
                           "post_evolution", fail)
        r0 == create_backup(backups, fs, cfg, clock, evolution_count,
                            "post_evolution", NoFail)
    IN  /\ pc = "post_backup"
        /\ Raises(fail, fs, cfg, r, r0)
        /\ backups' = r.backups
        /\ clock' = r.clock
        /\ Log(IF r.ret # None THEN "post_backup" ELSE "post_backup_failed",
               evolution_count)
        /\ Charge(fail)
        /\ outcomes' = Append(outcomes, outcome)
        /\ pc' = "sleep"
        /\ UNCHANGED <<fs, cfg, tick_limit, running, evolution_count, cycle_count, healthy,
                       code_lines, new_code, outcome, tick0, apiVars,
                   svcVars, haltVars,
                   confVars, valVars, anomVars>>

\* time.sleep(cycle_interval)
Sleep ==
    /\ pc = "sleep"
    /\ clock' = clock + cycle_interval * TicksPerSec
    /\ pc' = "loop"
    /\ UNCHANGED <<fs, backups, cfg, tick_limit, faults, running, evolution_count, cycle_count,
                   healthy, code_lines, new_code, outcome, outcomes, trace, tick0,
                   apiVars,
                   svcVars, haltVars,
                   confVars, valVars, anomVars>>

\* KeyboardInterrupt in the loop, or an exception that left it ("crashed"):
\* _shutdown makes the final backup and saves the memory
Shutdown(fail) ==
    LET r == create_backup(backups, fs, cfg, clock, evolution_count, "shutdown", fail)
        r0 == create_backup(backups, fs, cfg, clock, evolution_count, "shutdown", NoFail)
    IN  /\ pc \in {"loop", "backoff", "pre_backup", "read", "validate", "write",
                   "writelines", "post_backup", "sleep", "crashed"}
        /\ Raises(fail, fs, cfg, r, r0)
        /\ running' = FALSE
        /\ backups' = r.backups
        /\ clock' = r.clock
        /\ Charge(fail)
        /\ fs' = [fs EXCEPT !.memory = File(MemoryData(evolution_count))]
        /\ pc' = "stopped"
        \* run() returns: what belonged to the tick is gone
        /\ healthy' = TRUE
        /\ code_lines' = <<>>
        /\ new_code' = <<>>
        /\ outcome' = ""
        /\ trace' = <<>>
        /\ tick0' = NoTick
        \* monitor.stop_monitoring(), config_manager.disable_hot_reload()
        /\ monitor' = [monitor EXCEPT !.running = FALSE]
        /\ hot_reload_enabled' = FALSE
        /\ threads' = [t \in ThreadIds |->
                         IF threads[t].at = "alive"
                         THEN [threads[t] EXCEPT !.asked = TRUE] ELSE threads[t]]
        /\ shutdowns' = shutdowns + 1
        /\ shutdown_backups' = shutdown_backups + 1
        /\ UNCHANGED <<cfg, tick_limit, evolution_count, cycle_count, outcomes, apiVars,
                       current_time, alerts, breaches, health, sampled, mret,
                   confVars, valVars, anomVars>>

\* a second KeyboardInterrupt while _shutdown waits in stop_monitoring (the
\* join of the sampling thread): it leaves _shutdown and run(), and main()
\* catches it; the final backup and save_memory are not reached
ShutdownInterrupted ==
    /\ pc \in {"loop", "backoff", "pre_backup", "read", "validate", "write",
               "writelines", "post_backup", "sleep"}
    /\ running' = FALSE
    /\ pc' = "stopped"
    /\ healthy' = TRUE
    /\ code_lines' = <<>>
    /\ new_code' = <<>>
    /\ outcome' = ""
    /\ trace' = <<>>
    /\ tick0' = NoTick
    /\ monitor' = [monitor EXCEPT !.running = FALSE]
    /\ threads' = [t \in ThreadIds |->
                     IF threads[t].at = "alive" /\ t \in MonitorThreads
                     THEN [threads[t] EXCEPT !.asked = TRUE] ELSE threads[t]]
    /\ shutdowns' = shutdowns + 1
    /\ UNCHANGED <<fs, backups, clock, cfg, faults, tick_limit, evolution_count,
                   cycle_count, outcomes, apiVars, hot_reload_enabled, current_time,
                   alerts, breaches, health, sampled, mret, shutdown_backups,
                   confVars, valVars, anomVars>>

Next ==
    \/ Awaken
    \/ \E h \in BOOLEAN : TickStart(h)
    \/ Backoff
    \/ \E fail \in Fails : PreBackup(fail)
    \/ \E refl \in Reflections, fail \in FailsOf({<<"read", "">>}) : ReadCode(refl, fail)
    \/ Validate
    \/ \E fail \in FailsOf({<<"open", "">>}) : WriteOpen(fail)
    \/ \E fail \in FailsOf({<<"write", "">>}), k \in 0..Len(new_code) : WriteLines(fail, k)
    \/ Sleep
    \/ \E fail \in Fails : PostBackup(fail)
    \/ \E fail \in Fails : Shutdown(fail)
    \/ ShutdownInterrupted

Spec == Init /\ [][Next]_vars

SpecScenario == InitScenario /\ [][Next]_vars

(***************************************************************************)
(* Properties of the supervisor tick (Spec)                                *)
(***************************************************************************)
InTrace(step, n) == \E i \in 1..Len(trace) : trace[i] = <<step, n>>

Steps == {trace[i][1] : i \in 1..Len(trace)}

\* the body of the last tick is over and the next tick has not begun
TickDone == pc \in {"sleep", "loop"} /\ cycle_count > 0

\* validate_evolution_code was called in the tick and returned (True, [])
Valid == InTrace("validate", 1)

\* validate_evolution_code was called in the tick and returned (False, errors)
Invalid == InTrace("validate", 0)

\* C1: a tick whose health check returned false ends as skipped_unhealthy and
\* has changed nothing: the backup directory, the code file and the evolution
\* counter are as they were when the tick began, and the tick called neither
\* the validator nor the backup manager.
C1_UnhealthyTickMutatesNothing ==
    (cycle_count > 0 /\ ~healthy /\ pc \in {"backoff", "sleep", "loop"}) =>
        /\ outcome = "skipped_unhealthy"
        /\ pc # "backoff" => outcomes[Len(outcomes)] = "skipped_unhealthy"
        /\ trace = <<>>
        /\ backups = tick0.backups
        /\ fs.code = tick0.fs.code
        /\ evolution_count = tick0.evolution_count

C1_Witness ==
    /\ pc = "loop" /\ ~healthy /\ cycle_count > 1
    /\ outcomes[Len(outcomes)] = "skipped_unhealthy"
    /\ tick0.backups # {}
    /\ tick0.fs.code.exists

C3_ValidTickAppliesAndSnapshots ==
    /\ (TickDone /\ Valid /\ faults = tick0.faults) =>
          /\ fs.code = File(new_code)
          /\ evolution_count = tick0.evolution_count + 1
          /\ trace[Len(trace)] = <<"post_backup", evolution_count>>
          /\ trace[Len(trace) - 1] = <<"write_done", Len(new_code)>>
          /\ cfg.max_backups > 0 =>
                \E e \in backups :
                    /\ e.mtime > tick0.clock
                    /\ e.meta.state = "ok"
                    /\ e.meta.backup_type = "post_evolution"
                    /\ e.meta.evolution_count = evolution_count
                    /\ e.files["aurora_self_writing.py"] = File(new_code)
    /\ (Steps \cap {"post_backup", "post_backup_failed"} # {}) => Valid

C3_Witness ==
    /\ TickDone /\ Valid /\ faults = tick0.faults
    /\ evolution_count = 2
    /\ cfg.max_backups > 0
    /\ trace[Len(trace)] = <<"post_backup", 2>>

\* C4 as stated: from the moment the validator has accepted the candidate, the
\* code file holds the complete old code or the complete candidate.
C4_WriteIsAtomic ==
    Valid => fs.code \in {File(code_lines), File(new_code)}

\* the order of the steps of a tick
Rank(step) ==
    CASE step \in {"pre_backup", "pre_backup_failed"} -> 1
      [] step = "init_write" -> 2
      [] step = "validate" -> 3
      [] step = "write_open" -> 4
      [] step \in {"write_done", "write_failed"} -> 5
      [] step \in {"post_backup", "post_backup_failed"} -> 6

\* C5: the calls of a tick are made in the order pre-evolution backup,
\* validate, write, post-evolution backup: no step is followed by an earlier
\* one, the validator is not called once the write has begun, and the
\* post-evolution backup is called only after the write has returned.
C5_TickOrder ==
    /\ \A i, j \in 1..Len(trace) : i < j => Rank(trace[i][1]) < Rank(trace[j][1])
    /\ \A j \in 1..Len(trace) :
          Rank(trace[j][1]) = 6 =>
              \E i \in 1..Len(trace) : i < j /\ Rank(trace[i][1]) = 5

C5_Witness ==
    /\ TickDone
    /\ Len(trace) = 5
    /\ trace[1][1] = "pre_backup"
    /\ trace[2] = <<"validate", 1>>
    /\ trace[3][1] = "write_open"
    /\ trace[4][1] = "write_done"
    /\ trace[5][1] = "post_backup"

\* C6: a failing snapshot does not change what the tick does.  After a failed
\* pre-evolution snapshot the tick still validates (unless the code could not
\* be read) and a valid candidate is still written and counted; after a failed
\* post-evolution snapshot the written code and the incremented counter stand
\* and the loop goes on.
C6_SnapshotFailureIsNotFatal ==
    /\ (TickDone /\ InTrace("pre_backup_failed", tick0.evolution_count)) =>
          /\ outcome = "failed" \/ Valid \/ Invalid
          /\ Valid => /\ outcome = "applied"
                      /\ evolution_count = tick0.evolution_count + 1
                      /\ "write_failed" \notin Steps => fs.code = File(new_code)
          /\ running
    /\ ("post_backup_failed" \in Steps /\ pc # "stopped") =>
          /\ TickDone /\ running
          /\ outcome = "applied"
          /\ evolution_count = tick0.evolution_count + 1
          /\ "write_failed" \notin Steps => fs.code = File(new_code)

C6_Witness ==
    /\ TickDone /\ InTrace("pre_backup_failed", tick0.evolution_count)
    /\ Valid /\ fs.code = File(new_code)
    /\ evolution_count = tick0.evolution_count + 1
    /\ pc = "loop"

\* the scenario of C8: three ticks from code that defines run and evolve, with
\* max_backups = 2 and no compression; the first and the third candidate are
\* valid, the second is not; no I/O call fails
Scenario ==
    /\ TickDone /\ cycle_count = 3
    /\ outcomes = <<"applied", "rejected", "applied">>
    /\ cfg.max_backups = 2 /\ ~cfg.compression
    /\ faults = tick0.faults
    /\ {"def_run", "def_evolve"} \subseteq Kinds(fs.code.data)

Retained(type, ec) ==
    {e \in backups : e.meta.state = "ok" /\ e.meta.backup_type = type
                     /\ e.meta.evolution_count = ec}

\* C8 as stated: the scenario ends with exactly two backups, which are the
\* post-evolution snapshots of ticks 1 and 3, with counter 2 and one rejected
\* tick.
C8_ScenarioAsStated ==
    Scenario =>
        /\ Cardinality(backups) = 2
        /\ backups = Retained("post_evolution", 1) \cup Retained("post_evolution", 2)
        /\ evolution_count = 2
        /\ Len(SelectSeq(outcomes, LAMBDA o : o = "rejected")) = 1

\* C8 amended: the scenario ends with counter 2, one rejected tick (the second)
\* and exactly two backups.  With before_evolution off they are the
\* post-evolution snapshots of ticks 1 and 3; with before_evolution on (the
\* default) they are the pre-evolution and the post-evolution snapshot of
\* tick 3.
C8_Scenario ==
    Scenario =>
        /\ Cardinality(backups) = 2
        /\ evolution_count = 2
        /\ Len(SelectSeq(outcomes, LAMBDA o : o = "rejected")) = 1
        /\ outcomes[2] = "rejected"
        /\ Cardinality(Retained("post_evolution", 2)) = 1
        /\ \A e \in Retained("post_evolution", 2) :
              e.mtime > tick0.clock /\ e.files["aurora_self_writing.py"] = fs.code
        /\ IF cfg.before_evolution
           THEN /\ backups = Retained("pre_evolution", 1) \cup Retained("post_evolution", 2)
                /\ \A e \in Retained("pre_evolution", 1) :
                      /\ e.mtime > tick0.clock
                      /\ e.files["aurora_self_writing.py"] = tick0.fs.code
           ELSE /\ backups = Retained("post_evolution", 1) \cup Retained("post_evolution", 2)
                /\ \A e \in Retained("post_evolution", 1) :
                      /\ e.mtime < tick0.clock
                      /\ e.files["aurora_self_writing.py"] = tick0.fs.code

C8_Witness == Scenario /\ ~cfg.before_evolution /\ Cardinality(backups) = 2

(***************************************************************************)
(* Properties of the backup manager (SpecStore)                            *)
(***************************************************************************)
Paths(infos) == [i \in 1..Len(infos) |-> infos[i].path]

\* the last k elements of s, last first
RECURSIVE LastFirst(_, _)
LastFirst(s, k) ==
    IF k = 0 \/ s = <<>> THEN <<>>
    ELSE <<s[Len(s)]>> \o LastFirst(SubSeq(s, 1, Len(s) - 1), k - 1)

\* C7 as stated: after N successful snapshots (and no failed call) into an
\* empty backup directory, with max_backups = k < N, list_backups() returns
\* exactly k records, and they are the k snapshots taken last.
C7_RetentionAsStated ==
    (faults = 0 /\ Len(snapLog) > cfg.max_backups) =>
        /\ Len(list_backups(backups)) = cfg.max_backups
        /\ Paths(list_backups(backups)) = LastFirst(snapLog, cfg.max_backups)

\* C9: when restore_backup is called with the path that the create_backup
\* call before it returned, and returns True, every file that existed when
\* the snapshot was taken has the content it had then, whatever was done to
\* the files in between, with and without compression.
C9_RoundTrip ==
    (ret.op = "restore_backup" /\ ret.ok /\ ret.fresh) =>
        \A f \in FileNames : snapFs[f].exists => fs[f] = snapFs[f]

C9_Witness ==
    /\ ret.op = "restore_backup" /\ ret.ok /\ ret.fresh /\ ret.dirty
    /\ ret.path.gz
    /\ \A f \in FileNames : snapFs[f].exists => fs[f] = snapFs[f]
    /\ \E f \in FileNames : snapFs[f].exists

\* C10 as stated: a create_backup call that fails returns None and leaves
\* list_backups() as it was before the call.
C10_FailedSnapshotLeavesNothing ==
    (ret.op = "create_backup" /\ ~ret.ok) => list_backups(backups) = listBefore

\* C11 as stated: a create_backup call that returns a path returns the path
\* of an entry that list_backups() contains when the call returns; the
\* cleanup at the end of the call does not remove the backup just made.
C11_SnapshotSurvivesPrune ==
    (ret.op = "create_backup" /\ ret.ok) =>
        \E i \in 1..Len(list_backups(backups)) :
            list_backups(backups)[i].path = ret.path

(***************************************************************************)
(* SpecRestore: restore_backup called on what a backup directory can hold  *)
(***************************************************************************)
\* the backup that create_backup makes of the files fl under configuration c
MadeFrom(fl, c) == create_backup({}, fl, c, 0, NoneCount, "auto", NoFail).backups

Damages == {"none", "corrupt_sidecar", "no_sidecar", "unreadable", "no_directory"}

\* a backup as it is found later: as made, with a sidecar that is not JSON or
\* is gone, or (an archive) truncated or holding no directory
Damaged(e, d) ==
    CASE d = "none" -> e
      [] d = "corrupt_sidecar" -> [e EXCEPT !.meta = NoMeta("corrupt")]
      [] d = "no_sidecar" -> [e EXCEPT !.meta = NoMeta("absent")]
      [] d = "unreadable" ->
            [e EXCEPT !.intact = FALSE, !.files = NoFiles, !.meta = NoMeta("corrupt")]
      [] d = "no_directory" ->
            [e EXCEPT !.hasdir = FALSE, !.files = NoFiles, !.meta = NoMeta("absent")]

Archives(c) ==
    {Damaged(e, d) : e \in UNION {MadeFrom(fl, c) : fl \in StoreFiles},
                     d \in {x \in Damages :
                               x \in {"unreadable", "no_directory"} => c.compression}}

InitRestore ==
    /\ cfg \in {c \in Configs : c.before_evolution /\ c.max_backups = MaxBackupsCfg}
    /\ backups \in {{a} : a \in Archives(cfg)}
    /\ fs \in {[f \in FileNames |-> x] : x \in {Absent, File(V(1))}}
    /\ clock = TicksPerSec
    /\ faults = 0
    /\ pc = "api"
    /\ running = FALSE
    /\ evolution_count = 0
    /\ cycle_count = 0
    /\ healthy = TRUE
    /\ code_lines = <<>>
    /\ new_code = <<>>
    /\ outcome = ""
    /\ outcomes = <<>>
    /\ trace = <<>>
    /\ tick0 = NoTick
    /\ ret = NoCall
    /\ ops = 0
    /\ snapLog = <<>>
    /\ snapFs = fs
    /\ listBefore = <<>>
    /\ tick_limit = 0
    /\ NoServices({})
    /\ NotShutDown
    /\ Elsewhere

NextRestore ==
    \E p \in {PathOf(e) : e \in backups} \cup {None},
       fail \in FailsOf({<<"copy", b>> : b \in BackupNameSet}) : Restore(p, fail)

SpecRestore == InitRestore /\ [][NextRestore]_vars

\* C12: restore_backup never lets an exception out, and it returns False when
\* the path does not exist, when the archive cannot be read or holds no
\* directory, and when the sidecar cannot be read.
C12_RestoreNeverRaises ==
    ret.op = "restore_backup" =>
        /\ ~ret.raised
        /\ ret.target \in {"missing", "unreadable", "no_directory", "corrupt_sidecar"}
              => ~ret.ok

C12_Witness ==
    /\ ret.op = "restore_backup" /\ ret.target = "unreadable"
    /\ ~ret.ok /\ ~ret.raised

(***************************************************************************)
(* Properties of the shutdown (Spec)                                       *)
(***************************************************************************)
\* C13 as stated: when the supervisor has shut down, the tick that was in
\* flight when the request came has run to its end (every tick that began has
\* its outcome), and no tick begins after the shutdown.
C13_InFlightTickFinishes ==
    pc = "stopped" => Len(outcomes) = cycle_count

\* C14 as stated: _shutdown begins at most once, and a process that has shut
\* down has taken exactly one shutdown backup.
C14_ShutdownOnce ==
    /\ shutdowns <= 1
    /\ pc = "stopped" => shutdown_backups = 1

\* C16 as stated: a failure to write the evolved code stops the loop; after
\* it the tick does not go on to the post-evolution backup and the sleep.
C16_WriteFailureStopsLoop ==
    (\E n \in 0..Len(new_code) : InTrace("write_failed", n)) => ~running

(***************************************************************************)
(* ResourceMonitor: thresholds, alerts and health                          *)
(***************************************************************************)

\* the variables of the supervisor and of the backup store
coreVars == <<fs, backups, clock, cfg, faults, pc, running, evolution_count,
              cycle_count, healthy, code_lines, new_code, outcome, outcomes,
              trace, tick0, ret, snapLog, snapFs, listBefore, tick_limit>>

\* get_all_metrics(): the usage of each resource, level[r] points above its
\* threshold
Usage(level) == [r \in ResourceSet |-> Threshold(r) + level[r]]

\* samples under, at and over every threshold, and over exactly one
Samples ==
    {Usage([r \in ResourceSet |-> k]) : k \in {-1, 0, 1}}
        \cup {Usage([r \in ResourceSet |-> IF r = x THEN 1 ELSE -1]) :
                x \in ResourceSet}

\* seconds between two samples taken by a caller
Elapsed == {alert_cooldown - 1, alert_cooldown + 1}

\* the resources for which check_thresholds calls _trigger_alert
Over(metrics) == {r \in ResourceSet : metrics[r] > Threshold(r)}

\* the breaches of a sample whose own resource is out of its cooldown
Due(last, metrics, t) ==
    {r \in Over(metrics) : ~(t - last[r] < alert_cooldown)}

MaxOf(S) == CHOOSE x \in S : \A y \in S : y <= x

LastAlert_Any(last, r) == MaxOf({last[x] : x \in ResourceSet})

\* self.last_alerts.get(resource, 0)
LastAlert(last, r) == last[r]

Thrown_Uncaught(raises) == raises

\* try: callback(resource, usage, threshold) / except Exception: the error
\* is logged and does not leave _trigger_alert
Thrown(raises) == FALSE

\* _trigger_alert(resource, usage, threshold, current_time); st carries
\* last_alerts, the alerts fired and the callbacks that threw in this sample
_trigger_alert(st, r, t, callbacks, raising) ==
    IF t - LastAlert(st.last_alerts, r) < alert_cooldown
    THEN st
    ELSE [last_alerts |-> [st.last_alerts EXCEPT ![r] = t],
          fired |-> st.fired \cup {r},
          threw |-> st.threw \cup ({r} \cap callbacks \cap raising),
          raised |-> Thrown(r \in callbacks /\ r \in raising)]

\* check_thresholds(metrics) at time t: cpu, memory, disk in this order; an
\* exception leaving _trigger_alert skips the rest
check_thresholds(last, metrics, t, callbacks, raising) ==
    LET Check(st, r) ==
            IF st.raised THEN st
            ELSE IF metrics[r] > Threshold(r)
                 THEN _trigger_alert(st, r, t, callbacks, raising)
                 ELSE st
        st0 == [last_alerts |-> last, fired |-> {}, threw |-> {},
                raised |-> FALSE]
    IN  Check(Check(Check(st0, Resources[1]), Resources[2]), Resources[3])

\* <<r, t>> for the resources of S, in the order of Resources
Logged(S, t) ==
    SelectSeq([i \in 1..Len(Resources) |-> <<Resources[i], t>>],
              LAMBDA e : e[1] \in S)

\* what one check_thresholds call by `who` at time t leaves behind
Sample(who, metrics, t, raising) ==
    LET r == check_thresholds(monitor.last_alerts, metrics, t,
                              monitor.alert_callbacks, raising)
    IN  /\ monitor' = [monitor EXCEPT !.last_alerts = r.last_alerts]
        /\ current_time' = t
        /\ alerts' = alerts \o Logged(r.fired, t)
        /\ breaches' = breaches \o Logged(Over(metrics), t)
        /\ sampled' = [by |-> who, over |-> Over(metrics),
                       due |-> Due(monitor.last_alerts, metrics, t),
                       fired |-> r.fired, threw |-> r.threw,
                       raised |-> r.raised]

\* the callbacks that may throw in one sample: none of them, or all
Raising(callbacks) == {{}, callbacks}

\* monitor.check_thresholds(monitor.get_all_metrics()), dt seconds after the
\* previous call
CheckThresholds(metrics, dt, raising) ==
    /\ pc = "api" /\ ops < MaxCalls
    /\ Sample(Caller, metrics, current_time + dt, raising)
    /\ ops' = ops + 1
    /\ UNCHANGED <<coreVars, haltVars, hot_reload_enabled, threads, health, mret,
                   confVars, valVars, anomVars>>

is_system_healthy_Remembering(self, metrics) ==
    /\ \A r \in ResourceSet : metrics[r] < Threshold(r)
    /\ \A r \in ResourceSet : self.last_alerts[r] = 0

\* is_system_healthy(): a fresh get_all_metrics(), strictly below all three
is_system_healthy(self, metrics) ==
    /\ metrics["cpu"] < cpu_threshold
    /\ metrics["memory"] < memory_threshold
    /\ metrics["disk"] < disk_threshold

\* monitor.is_system_healthy() when get_all_metrics() returns metrics
IsSystemHealthy(metrics) ==
    /\ pc = "api" /\ ops < MaxCalls
    /\ health' = Append(health,
                        [under |-> \A r \in ResourceSet :
                                      metrics[r] < Threshold(r),
                         breach |-> Over(metrics) # {},
                         result |-> is_system_healthy(monitor, metrics)])
    /\ ops' = ops + 1
    /\ UNCHANGED <<coreVars, haltVars, monitor, hot_reload_enabled, threads,
                   current_time, alerts, breaches, sampled, mret,
                   confVars, valVars, anomVars>>

\* a component used alone: no Aurora, an empty working directory
Alone ==
    /\ fs = [f \in FileNames |-> Absent]
    /\ backups = {}
    /\ clock = 0
    /\ cfg \in {c \in Configs : c.before_evolution /\ ~c.compression
                                  /\ c.max_backups = MaxBackupsCfg}
    /\ faults = 0
    /\ pc = "api"
    /\ running = FALSE
    /\ evolution_count = 0
    /\ cycle_count = 0
    /\ healthy = TRUE
    /\ code_lines = <<>>
    /\ new_code = <<>>
    /\ outcome = ""
    /\ outcomes = <<>>
    /\ trace = <<>>
    /\ tick0 = NoTick
    /\ ret = NoCall
    /\ ops = 0
    /\ snapLog = <<>>
    /\ snapFs = fs
    /\ listBefore = <<>>
    /\ tick_limit = 0
    /\ NoAnomalies

\* a ResourceMonitor with no callback, a cpu callback, or one per resource
InitMonitor ==
    /\ Alone
    /\ NoValidation
    /\ ConfigLoaded(Doc(DefaultTree, 1))
    /\ \E callbacks \in {{}, {"cpu"}, ResourceSet} : NoServices(callbacks)
    /\ NotShutDown

NextMonitor ==
    \/ \E metrics \in Samples, dt \in Elapsed :
         \E raising \in Raising(monitor.alert_callbacks) :
            CheckThresholds(metrics, dt, raising)
    \/ \E metrics \in Samples : IsSystemHealthy(metrics)

SpecMonitor == InitMonitor /\ [][NextMonitor]_vars

\* the times of the entries of log that are about resource r
TimesOf(log, r) ==
    LET mine == SelectSeq(log, LAMBDA e : e[1] = r)
    IN  [i \in 1..Len(mine) |-> mine[i][2]]

\* C17: the cooldown is per resource: the first breach of a resource alerts;
\* of two breaches of one resource, less than alert_cooldown apart only the
\* first alerts, more than alert_cooldown apart both alert, whatever alerts
\* the other resources raised in between
C17_CooldownPerResource ==
    \A r \in ResourceSet :
        LET b == TimesOf(breaches, r)
            a == TimesOf(alerts, r)
        IN  /\ Len(b) >= 1 => Len(a) >= 1 /\ a[1] = b[1]
            /\ Len(b) = 2 /\ b[2] - b[1] < alert_cooldown => a = <<b[1]>>
            /\ Len(b) = 2 /\ b[2] - b[1] > alert_cooldown => a = <<b[1], b[2]>>

\* cpu breached twice inside its cooldown and alerted once, while memory,
\* first breached at cpu's second breach, alerted then
C17_Witness ==
    LET b == TimesOf(breaches, "cpu")
    IN  /\ Len(b) = 2 /\ b[2] - b[1] < alert_cooldown
        /\ TimesOf(alerts, "cpu") = <<b[1]>>
        /\ TimesOf(breaches, "memory") = <<b[2]>>
        /\ TimesOf(alerts, "memory") = <<b[2]>>

\* C19: is_system_healthy() answers from its own sample alone: true exactly
\* when that sample is under all three thresholds, whatever was sampled or
\* alerted before
C19_HealthLatestOnly ==
    \A i \in 1..Len(health) : health[i].result = health[i].under

\* healthy, unhealthy, healthy: the third answer is true
C19_Witness ==
    /\ Len(health) = 3
    /\ health[1].result /\ ~health[2].result /\ health[3].result

(***************************************************************************)
(* The background loops: start_monitoring, stop_monitoring, the sampling   *)
(* loop, the hot-reload poller and the learning worker                     *)
(***************************************************************************)

AlreadyRunning_Never(self) == FALSE

\* start_monitoring: `if self.running: return`
AlreadyRunning(self) == self.running

\* the sampling threads spawned so far
Spawned == {t \in MonitorThreads : threads[t].at # "unborn"}

Called(op) ==
    [op |-> op, was_running |-> monitor.running, spawned |-> FALSE,
     raised |-> FALSE,
     earlier |-> IF mret.op = "" THEN mret.earlier
                 ELSE mret.earlier \cup {<<mret.op, mret.was_running>>}]

\* monitor.start_monitoring()
StartMonitoring ==
    /\ ops < MaxCalls
    /\ ops' = ops + 1
    /\ IF AlreadyRunning(monitor)
       THEN /\ mret' = Called("start")
            /\ UNCHANGED <<monitor, threads>>
       ELSE LET k == Cardinality(Spawned) + 1
            IN  /\ k <= MaxMonitorThreads
                /\ monitor' = [monitor EXCEPT !.running = TRUE,
                                              !.monitor_thread = k]
                /\ threads' = [threads EXCEPT ![<<"monitor", k>>] = Alive]
                /\ mret' = [Called("start") EXCEPT !.spawned = TRUE]
    /\ UNCHANGED <<coreVars, haltVars, hot_reload_enabled, current_time, alerts,
                   breaches, health, sampled,
                   confVars, valVars, anomVars>>

\* monitor.stop_monitoring(): clears the flag every sampling loop reads, then
\* waits at most 5 seconds for the thread last spawned
StopMonitoring ==
    /\ ops < MaxCalls
    /\ ops' = ops + 1
    /\ monitor' = [monitor EXCEPT !.running = FALSE]
    /\ threads' = [t \in ThreadIds |->
                     IF threads[t].at = "alive" /\ t \in MonitorThreads
                     THEN [threads[t] EXCEPT !.asked = TRUE] ELSE threads[t]]
    /\ mret' = Called("stop")
    /\ UNCHANGED <<coreVars, haltVars, hot_reload_enabled, current_time, alerts,
                   breaches, health, sampled,
                   confVars, valVars, anomVars>>

\* what the sampling loop reads: everything under, or everything over
LoopSamples ==
    {Usage([r \in ResourceSet |-> k]) : k \in {-1, 1}}

\* _monitor_loop, thread t: `while self.running` is false, the thread ends
MonitorLoopExit(t) ==
    /\ threads[t].at = "alive"
    /\ ~monitor.running
    /\ threads' = [threads EXCEPT ![t].at = "exited"]
    /\ UNCHANGED <<coreVars, haltVars, ops, monitor, hot_reload_enabled,
                   current_time, alerts, breaches, health, sampled, mret,
                   confVars, valVars, anomVars>>

\* _monitor_loop, thread t: one iteration, check_interval seconds after the
\* previous sample; what check_thresholds raises is caught by the loop
MonitorIterate(t, metrics, raising) ==
    /\ threads[t].at = "alive"
    /\ monitor.running
    /\ ops < MaxCalls
    /\ ops' = ops + 1
    /\ Sample(t, metrics, current_time + check_interval, raising)
    /\ threads' = [threads EXCEPT ![t].late = threads[t].late \/ threads[t].asked]
    /\ loop_log' = Append(loop_log, [result |-> "sampled", levels |-> {}])
    /\ UNCHANGED <<coreVars, haltVars, hot_reload_enabled, health, mret,
                   confVars, valVars, error_history, anomaly_checks,
                   memory_usage_history, anomaly_config, cycle_times>>

\* what the `except Exception` of _monitor_loop logs: logger.error
LoopErrorLogged(log) == {"error"}

\* _monitor_loop, thread t: one iteration in which get_all_metrics() raises
\* (a psutil call fails): check_thresholds is not called, the error is
\* logged, the loop sleeps check_interval and goes on
MonitorIterateFails(t) ==
    /\ threads[t].at = "alive"
    /\ monitor.running
    /\ ops < MaxCalls
    /\ ops' = ops + 1
    /\ current_time' = current_time + check_interval
    /\ threads' = [threads EXCEPT ![t].late = threads[t].late \/ threads[t].asked]
    /\ loop_log' = Append(loop_log, [result |-> "failed",
                                     levels |-> LoopErrorLogged(loop_log)])
    /\ UNCHANGED <<coreVars, haltVars, monitor, hot_reload_enabled, alerts, breaches,
                   health, sampled, mret, confVars, valVars, error_history,
                   anomaly_checks, memory_usage_history, anomaly_config,
                   cycle_times>>

\* _hot_reload_worker: `while self.hot_reload_enabled`
ReloadIterate ==
    /\ threads[ReloadThread].at = "alive"
    /\ threads' = [threads EXCEPT ![ReloadThread] =
                      IF hot_reload_enabled
                      THEN [@ EXCEPT !.late = @ \/ threads[ReloadThread].asked]
                      ELSE [@ EXCEPT !.at = "exited"]]
    /\ UNCHANGED <<coreVars, haltVars, ops, monitor, hot_reload_enabled,
                   current_time, alerts, breaches, health, sampled, mret,
                   confVars, valVars, anomVars>>

\* _continuous_learning: `while True`, one more learning_queue.get
LearningIterate ==
    /\ threads[LearningThread].at = "alive"
    /\ threads' = [threads EXCEPT ![LearningThread].late =
                      @ \/ threads[LearningThread].asked]
    /\ UNCHANGED <<coreVars, haltVars, ops, monitor, hot_reload_enabled,
                   current_time, alerts, breaches, health, sampled, mret,
                   confVars, valVars, anomVars>>

\* an Aurora just constructed, whose run() does nothing but wait for Ctrl-C,
\* or a ResourceMonitor alone with one callback per resource
InitServices ==
    \/ /\ fs = FirstRun(File(RunEvolveCode))
       /\ cfg \in {c \in Configs : c.before_evolution /\ ~c.compression
                                     /\ c.max_backups = MaxBackupsCfg}
       /\ faults = MaxFaults
       /\ tick_limit = 0
       /\ Constructed
    \/ /\ Alone
       /\ ConfigLoaded(Doc(DefaultTree, 1))
       /\ NoValidation
       /\ NoServices(ResourceSet)
       /\ NotShutDown

NextServices ==
    \/ Awaken
    \/ \E fail \in Fails : Shutdown(fail)
    \/ StartMonitoring
    \/ StopMonitoring
    \/ \E t \in MonitorThreads : MonitorLoopExit(t)
    \/ \E t \in MonitorThreads, metrics \in LoopSamples :
         \E raising \in Raising(monitor.alert_callbacks) :
            MonitorIterate(t, metrics, raising)
    \/ \E t \in MonitorThreads : MonitorIterateFails(t)
    \/ ReloadIterate
    \/ LearningIterate

SpecServices == InitServices /\ [][NextServices]_vars

\* C15: no background loop begins another iteration after stop or shutdown
\* was requested of it
C15_LoopsObserveStop ==
    \A t \in ThreadIds : ~threads[t].late

\* C18: a callback that throws does not end the sample: check_thresholds
\* returns normally to the loop, every breach that was due has alerted, and
\* the sampling thread ends only when it was asked to
C18_CallbackErrorContained ==
    sampled.by \in MonitorThreads =>
        /\ ~sampled.raised
        /\ sampled.fired = sampled.due
        /\ threads[sampled.by].at # "alive" => threads[sampled.by].asked

\* the cpu callback threw, memory and disk alerted all the same, and the
\* monitor is still running its loop
C18_Witness ==
    /\ sampled.by \in MonitorThreads
    /\ "cpu" \in sampled.threw
    /\ sampled.fired = ResourceSet
    /\ monitor.running /\ threads[sampled.by].at = "alive"
    /\ ~threads[sampled.by].asked

\* C20: start on a running monitor spawns nothing, so at most one sampling
\* loop runs that was not asked to stop; stop returns normally and leaves
\* the monitor stopped, whether it was running or not
C20_StartStopIdempotent ==
    /\ mret.op = "start" /\ mret.was_running => ~mret.spawned
    /\ Cardinality({t \in MonitorThreads :
                      threads[t].at = "alive" /\ ~threads[t].asked}) <= 1
    /\ mret.op = "stop" => ~mret.raised /\ ~monitor.running

\* start on a running monitor, stop, then stop again on the stopped monitor
C20_Witness ==
    /\ mret.op = "stop" /\ ~mret.was_running /\ ~monitor.running
    /\ <<"stop", TRUE>> \in mret.earlier
    /\ <<"start", TRUE>> \in mret.earlier

(***************************************************************************)
(* ConfigManager: get, set, save_config (SpecConfig) and load_config under *)
(* the hot-reload thread (SpecReload)                                      *)
(***************************************************************************)
\* the default a caller passes to get
Fallback == Leaf("fallback")

\* keys leads to a value: every key is found, in a map
Reachable(tree, keys) ==
    \A i \in 1..Len(keys) :
        /\ At(tree, SubSeq(keys, 1, i - 1)) = MAP
        /\ At(tree, SubSeq(keys, 1, i)) # ABSENT

\* the tree that the load_config in progress leaves when nothing fails
Upcoming == IF loading = "parsed" THEN _expand_env_vars(config) ELSE config

\* config_manager.get(key, Fallback), key.split('.') being keys
Get(keys) ==
    LET r == get(config, keys, Fallback)
    IN  /\ pc = "api" /\ ops < MaxCalls
        /\ ops' = ops + 1
        /\ cret' = [op |-> "get", keys |-> keys, value |-> r.value,
                    raised |-> r.raised, old |-> stable, new |-> Upcoming,
                    file |-> config_file, during |-> loading]
        /\ UNCHANGED <<coreVars, haltVars, svcVars, valVars, anomVars, config,
                       config_file, last_modified, loading, stable>>

\* config_manager.set(key, value)
Set(keys, value) ==
    LET r == set(config, <<>>, keys, value)
    IN  /\ pc = "api" /\ ops < MaxCalls
        /\ loading = "idle"
        /\ ops' = ops + 1
        /\ config' = r.tree
        /\ stable' = r.tree
        /\ cret' = [op |-> "set", keys |-> keys, value |-> Leaf(value),
                    raised |-> r.raised, old |-> config, new |-> r.tree,
                    file |-> config_file, during |-> loading]
        /\ UNCHANGED <<coreVars, haltVars, svcVars, valVars, anomVars,
                       config_file, last_modified, loading>>

\* config_manager.save_config(): the tree in memory is dumped to the file
SaveConfig ==
    /\ pc = "api" /\ ops < MaxCalls
    /\ loading = "idle"
    /\ ops' = ops + 1
    /\ config_file' = Doc(config, config_file.mtime + 1)
    /\ cret' = [op |-> "save", keys |-> <<>>, value |-> EmptyTree,
                raised |-> FALSE, old |-> config, new |-> config,
                file |-> config_file, during |-> loading]
    /\ UNCHANGED <<coreVars, haltVars, svcVars, valVars, anomVars, config,
                   last_modified, loading, stable>>

\* a ConfigManager alone, constructed on any of the files
InitConfig ==
    /\ Alone
    /\ NoValidation
    /\ NoServices({})
    /\ NotShutDown
    /\ \E file \in ConfigFiles(1) : ConfigLoaded(file)

NextConfig ==
    \/ \E keys \in QueryPaths : Get(keys)
    \/ \E keys \in TreePaths \ {<<>>} : Set(keys, "set")
    \/ SaveConfig

SpecConfig == InitConfig /\ [][NextConfig]_vars

\* somebody rewrites, damages or deletes the configuration file
FileChanges(file) ==
    /\ pc = "api" /\ ops < MaxCalls
    /\ ops' = ops + 1
    /\ file # config_file
    /\ config_file' = file
    /\ UNCHANGED <<coreVars, haltVars, svcVars, valVars, anomVars, config,
                   last_modified, loading, stable, cret>>

\* config_manager.load_config() called by the owner of the ConfigManager
LoadConfig ==
    LET r == load_config(config_file, last_modified)
    IN  /\ pc = "api" /\ ops < MaxCalls
        /\ loading = "idle"
        /\ ops' = ops + 1
        /\ config' = r.config
        /\ stable' = r.config
        /\ last_modified' = r.last_modified
        /\ cret' = [op |-> "load", keys |-> <<>>, value |-> EmptyTree,
                    raised |-> r.raised, old |-> config, new |-> r.config,
                    file |-> config_file, during |-> loading]
        /\ UNCHANGED <<coreVars, haltVars, svcVars, valVars, anomVars,
                       config_file, loading>>

\* _hot_reload_worker sees a newer file and load_config runs up to
\* `self.config = yaml.safe_load(f) or {}`; a file that does not parse sends
\* it to the except branch
ReloadParse ==
    /\ hot_reload_enabled /\ threads[ReloadThread].at = "alive"
    /\ loading = "idle"
    /\ config_file.kind # "missing"
    /\ config_file.mtime > last_modified
    /\ stable' = config
    /\ IF config_file.kind = "doc"
       THEN config' = config_file.tree /\ loading' = "parsed"
       ELSE config' = LoadFailed(last_modified).config /\ loading' = "idle"
    /\ UNCHANGED <<coreVars, haltVars, svcVars, valVars, anomVars, ops,
                   config_file, last_modified, cret>>

\* load_config goes on: self.config = self._expand_env_vars(self.config),
\* then last_modified = stat().st_mtime, which raises if the file is gone
ReloadExpand ==
    /\ loading = "parsed"
    /\ loading' = "idle"
    /\ IF config_file.kind = "missing"
       THEN /\ config' = LoadFailed(last_modified).config
            /\ UNCHANGED last_modified
       ELSE /\ config' = _expand_env_vars(config)
            /\ last_modified' = config_file.mtime
    /\ stable' = config'
    /\ UNCHANGED <<coreVars, haltVars, svcVars, valVars, anomVars, ops,
                   config_file, cret>>

\* a ConfigManager alone after enable_hot_reload()
InitReload ==
    /\ Alone
    /\ NoValidation
    /\ NotShutDown
    /\ monitor = MonitorMade({})
    /\ hot_reload_enabled = TRUE
    /\ threads = [t \in ThreadIds |-> IF t = ReloadThread THEN Alive ELSE Unborn]
    /\ NotSampledYet
    /\ \E file \in ConfigFiles(1) : ConfigLoaded(file)

NextReload ==
    \/ \E file \in ConfigFiles(config_file.mtime + 1) : FileChanges(file)
    \/ LoadConfig
    \/ ReloadParse
    \/ ReloadExpand
    \/ \E keys \in QueryPaths : Get(keys)

SpecReload == InitReload /\ [][NextReload]_vars

\* C21: what get returns is what the same lookup finds in the tree held
\* before the reload began, or what it finds in the tree the reload leaves
C21_ReloadIsAtomic ==
    cret.op = "get" =>
        cret.value \in {get(cret.old, cret.keys, Fallback).value,
                        get(cret.new, cret.keys, Fallback).value}

\* C22: get never raises; it returns the value its keys lead to, and the
\* default when a key is missing or is looked up in something not a map
C22_GetNeverThrows ==
    cret.op = "get" =>
        /\ ~cret.raised
        /\ cret.value = IF Reachable(config, cret.keys)
                        THEN Sub(config, cret.keys) ELSE Fallback

\* a lookup below a scalar returned the default
C22_Witness ==
    /\ cret.op = "get" /\ ~cret.raised /\ cret.value = Fallback
    /\ \E i \in 1..(Len(cret.keys) - 1) :
          At(config, SubSeq(cret.keys, 1, i)) \notin {MAP, ABSENT}

\* C23: set returns normally, a get of the same keys then finds the value,
\* and the configuration file is as it was
C23_SetThenGet ==
    cret.op = "set" =>
        /\ ~cret.raised
        /\ get(config, cret.keys, Fallback).value = cret.value
        /\ config_file = cret.file

\* C24: load_config on a missing or malformed file returns normally and
\* leaves the defaults; every get then returns normally, with the caller's
\* default for keys that lead nowhere
C24_LoadFallsBack ==
    (cret.op = "load" /\ cret.file.kind \in {"missing", "malformed"}) =>
        /\ ~cret.raised
        /\ cret.new = DefaultTree
        /\ \A keys \in QueryPaths :
              LET r == get(cret.new, keys, Fallback)
              IN  /\ ~r.raised
                  /\ ~Reachable(cret.new, keys) => r.value = Fallback

\* a load that found the file damaged after it had held a document
C24_Witness ==
    /\ cret.op = "load" /\ cret.file.kind = "malformed" /\ ~cret.raised
    /\ cret.old # DefaultTree /\ config = DefaultTree

(***************************************************************************)
(* CodeValidator as a function of its input (SpecValidator)                *)
(***************************************************************************)
\* the lines of the code to judge
ValLines ==
    {T, <<"junk", 0>>, <<"def_run", 0>>, <<"def_evolve", 0>>,
     <<"inner_evolve", 0>>}
        \cup {<<k, 0>> : k \in DOMAIN Calls \cup DOMAIN Imports}

\* the sequences over S of at most n elements
SeqsUpTo(S, n) == UNION {[1..k -> S] : k \in 0..n}

\* the old code: defines run and evolve, defines nothing, does not parse
OldCodes ==
    {<< <<"def_run", 0>>, <<"def_evolve", 0>> >>, <<T>>, << <<"junk", 0>> >>}

\* validator.validate_code(source.new)
ValidateCode ==
    LET r == validate_code(source.self, source.new)
    IN  /\ pc = "api"
        /\ vret' = [op |-> "validate_code", valid |-> r.valid, errors |-> r.errors]
        /\ UNCHANGED <<coreVars, haltVars, svcVars, confVars, anomVars, ops, source>>

\* validator.validate_evolution_code(source.old, source.new)
ValidateEvolution ==
    LET r == validate_evolution_code(source.self, source.old, source.new)
    IN  /\ pc = "api"
        /\ vret' = [op |-> "validate_evolution_code", valid |-> r.valid,
                    errors |-> r.errors]
        /\ UNCHANGED <<coreVars, haltVars, svcVars, confVars, anomVars, ops, source>>

\* a CodeValidator alone, and the code it is about to be given
InitValidator ==
    /\ Alone
    /\ NoServices({})
    /\ NotShutDown
    /\ ConfigLoaded(Doc(DefaultTree, 1))
    /\ source \in [self : Validators, old : OldCodes,
                   new : SeqsUpTo(ValLines, MaxLines)]
    /\ vret = [op |-> "", valid |-> FALSE, errors |-> <<>>]

NextValidator == ValidateCode \/ ValidateEvolution

SpecValidator == InitValidator /\ [][NextValidator]_vars

\* the names the validator holds as dangerous to call
DenyList == dangerous_functions \cup dangerous_imports

\* the callees of the calls in code
Called_(code) == {Calls[k].target : k \in Kinds(code) \cap DOMAIN Calls}

Imported(code) == {Imports[k] : k \in Kinds(code) \cap DOMAIN Imports}

\* some error of errors names n
Names(errors, n) == \E j \in 1..Len(errors) : n \in errors[j].names

\* C25: code that parses and calls a name of the deny-list is invalid, with
\* an error naming each such callee
C25_DenyListedCallRejected ==
    ( /\ vret.op = "validate_code" /\ source.self = DefaultValidator
      /\ Parses(source.new) ) =>
        \A n \in Called_(source.new) \cap DenyList :
            ~vret.valid /\ Names(vret.errors, n)

\* the definitions at the top level of code
TopLevel(code) ==
    {NameOf(k) : k \in Kinds(code) \cap {"def_run", "def_evolve", "def_awaken",
                                         "def_other"}}

\* the required names that old defines at top level and new does not
Dropped(old, new) == (critical_functions \cap TopLevel(old)) \ TopLevel(new)

\* C26: for old code that parses and new code that passes validate_code,
\* validate_evolution_code is invalid with an error naming the required
\* top-level definitions that new dropped, and valid when it dropped none
C26_RequiredNamesGuard ==
    ( /\ vret.op = "validate_evolution_code" /\ source.self = DefaultValidator
      /\ Parses(source.old)
      /\ validate_code(source.self, source.new).valid ) =>
        LET dropped == Dropped(source.old, source.new)
        IN  /\ dropped # {} =>
                /\ ~vret.valid
                /\ \E j \in 1..Len(vret.errors) : dropped \subseteq vret.errors[j].names
            /\ dropped = {} => vret.valid

\* C27: code that parses, calls nothing of the deny-list and imports no
\* dangerous module is valid with no error
C27_BenignAccepted ==
    ( /\ vret.op = "validate_code" /\ source.self = DefaultValidator
      /\ Parses(source.new)
      /\ Called_(source.new) \cap DenyList = {}
      /\ Imported(source.new) \cap dangerous_modules = {} ) =>
        vret.valid /\ vret.errors = <<>>

\* a harmless import and a harmless call were judged valid
C27_Witness ==
    /\ vret.op = "validate_code" /\ source.self = DefaultValidator
    /\ Kinds(source.new) = {"import_json", "call_print"}
    /\ vret.valid /\ vret.errors = <<>>

\* C28: with the default switches, code that does not parse is invalid with
\* the syntax error as its only error, whatever else it holds; and whatever
\* the switches, valid is true exactly when there is no error
C28_SyntaxFirst ==
    vret.op = "validate_code" =>
        /\ (source.self = DefaultValidator /\ ~Parses(source.new)) =>
              ~vret.valid /\ vret.errors = <<Err("Syntax error", {})>>
        /\ vret.valid <=> vret.errors = <<>>

\* code with a line that does not parse and a call of eval: one error
C28_Witness ==
    /\ vret.op = "validate_code" /\ source.self = DefaultValidator
    /\ Kinds(source.new) = {"junk", "call_eval"}
    /\ ~vret.valid /\ Len(vret.errors) = 1


(***************************************************************************)
(* SpecCycle: run() with cycle_context and _check_anomalies around each    *)
(* tick. What the body of the tick does is an input: the health check       *)
(* returns false, evolve_code returns true or, after the validator          *)
(* rejected the candidate, false, or is_system_healthy raises.              *)
(***************************************************************************)
Bodies == {"applied", "rejected", "skipped_unhealthy", "failed"}

\* seconds the body of a tick takes, the back-off sleep left out
BodySeconds == {1, 11}

\* one pass of `while self.running`: cycle_count += 1, the body inside
\* cycle_context, its except and finally clauses, time.sleep(cycle_interval)
\* unless the unhealthy branch has slept and continued.
\* An exception that leaves cycle_context leaves the loop ("crashed").
Cycle(body, secs, memory) ==
    LET n == cycle_count + 1
        slept == IF body = "skipped_unhealthy" THEN 2 * cycle_interval ELSE 0
        duration == (secs + slept) * TicksPerSec
        now == clock + duration
        kept == AfterBody(n, body, error_history, cycle_times,
                          memory_usage_history)
        errors == IF body = "failed"
                  THEN Append(kept.error_history, [cycle |-> n, timestamp |-> now])
                  ELSE kept.error_history
        r == _check_anomalies(anomaly_config, n, duration, memory,
                              kept.memory_usage_history, errors, now)
        left == body = "failed" \/ r.raised
    IN  /\ pc = "loop" /\ running /\ cycle_count < tick_limit
        /\ cycle_count' = n
        /\ healthy' = (body # "skipped_unhealthy")
        /\ evolution_count' = IF body = "applied" THEN evolution_count + 1
                              ELSE evolution_count
        /\ outcome' = body
        /\ outcomes' = Append(outcomes, body)
        /\ error_history' = errors
        /\ cycle_times' = Append(kept.cycle_times, duration)
        /\ memory_usage_history' = r.history
        /\ anomaly_checks' = Append(anomaly_checks,
                                    [cycle |-> n, emitted |-> r.emitted,
                                     evaluated |-> r.evaluated, raised |-> r.raised])
        /\ pc' = IF left THEN "crashed" ELSE "loop"
        /\ clock' = IF left \/ body = "skipped_unhealthy" THEN now
                     ELSE now + cycle_interval * TicksPerSec
        /\ UNCHANGED <<fs, backups, cfg, tick_limit, faults, running, code_lines,
                       new_code, trace, tick0, apiVars, svcVars, haltVars,
                       confVars, valVars, anomaly_config, loop_log>>

InitCycle ==
    /\ fs = FirstRun(File(RunEvolveCode))
    /\ cfg \in {c \in Configs : c.max_backups = MaxBackupsCfg /\ ~c.compression
                                /\ c.before_evolution}
    /\ faults = MaxFaults
    /\ tick_limit = MaxCycles
    /\ Assembled
    /\ ConfigLoaded(Doc(DefaultTree, 1))
    /\ NoValidation
    /\ NoCycles
    /\ anomaly_config \in AnomalyConfigs

NextCycle ==
    \/ Awaken
    \/ \E body \in Bodies, secs \in BodySeconds,
          memory \in MemorySamples \cup {SamplingFails} : Cycle(body, secs, memory)
    \/ \E fail \in Fails : Shutdown(fail)

SpecCycle == InitCycle /\ [][NextCycle]_vars

\* the share of rejected outcomes among the last min(i, 10) ticks up to tick
\* i is above the threshold of the section
RejectedShareOver(section, i) ==
    LET n == Min(i, rate_window)
        rejected == {j \in (i - n + 1)..i : outcomes[j] = "rejected"}
    IN  Cardinality(rejected) * 100 > section.error_rate_threshold * n

\* C29: the anomaly detection is evaluated exactly once at the end of every
\* tick, whatever the outcome of the tick, and neither an anomaly nor the
\* evaluation stops the loop: the loop is left only by a tick whose body
\* failed with an exception.
C29_ChecksNeverStopLoop ==
    /\ Len(anomaly_checks) = Len(outcomes)
    /\ Len(outcomes) = cycle_count
    /\ \A i \in 1..Len(anomaly_checks) : anomaly_checks[i].cycle = i
    /\ pc = "crashed" => outcome = "failed"

\* C30: at the end of each tick whose checks were evaluated, the
\* high-error-rate anomaly is emitted exactly when the share of rejected
\* outcomes among the last min(ticks, 10) ticks exceeds the threshold.
C30_HighErrorRateOnRejected ==
    \A i \in 1..Len(anomaly_checks) :
        anomaly_checks[i].evaluated =>
            ("high_error_rate" \in anomaly_checks[i].emitted
                <=> RejectedShareOver(anomaly_config, i))


(***************************************************************************)
(* Properties of snapshots of nothing and of colliding names (SpecStore)   *)
(***************************************************************************)
\* the size of backup_metadata.json as json.dump(metadata, f, indent=2)
\* writes it, in lines (the unit of the sizes of the model): the braces, the
\* five scalar keys, and the list of files, which is "[]" on the line of its
\* key when it is empty and has a line per name and one for "]" otherwise
SidecarSize(m) ==
    2 + 5 + (IF m.files = <<>> THEN 1 ELSE Len(m.files) + 2)

\* C31: a snapshot taken when none of the source files exists succeeds and
\* leaves an archive that holds only the metadata sidecar, whose file list is
\* empty and whose recorded size is the size of the sidecar.
C31_EmptySnapshotCountsSidecar ==
    (/\ ret.op = "create_backup"
     /\ \A f \in FileNames : ~snapFs[f].exists
     /\ faults = 0) =>
        /\ ret.ok
        /\ \A e \in Lookup(backups, ret.path) :
              /\ e.meta.state = "ok"
              /\ e.meta.files = <<>>
              /\ \A b \in BackupNameSet : ~e.files[b].exists
              /\ e.meta.size_bytes = SidecarSize(e.meta)


(***************************************************************************)
(* Properties of the sampling loop under failing samples (SpecServices)    *)
(***************************************************************************)
\* iteration i of the sampling loop is the third failure in a row, or a later
\* one of the same run of failures
ThirdInARow(i) ==
    i >= 3 /\ \A j \in (i - 2)..i : loop_log[j].result = "failed"

\* C32: an iteration of the sampling loop whose metric collection fails is
\* logged and skipped, the loop goes on with the next one; the third failure
\* in a row logs a warning; and while the monitor is running its sampling
\* thread has not ended, however many samples failed.
C32_SamplingFailuresEscalate ==
    /\ \A i \in 1..Len(loop_log) :
          loop_log[i].result = "failed" => "error" \in loop_log[i].levels
    /\ \A i \in 1..Len(loop_log) :
          ThirdInARow(i) => "warning" \in loop_log[i].levels
    /\ monitor.running =>
          threads[<<"monitor", monitor.monitor_thread>>].at = "alive"


(***************************************************************************)
(* Properties of ticks whose write or whose old code fails (Spec)          *)
(***************************************************************************)
\* _write_code raised in the tick, at open() or in writelines()
WriteFailed == \E n \in 0..Len(new_code) : InTrace("write_failed", n)

\* C33: the evolution counter is incremented, and the tick counts as applied,
\* only when the candidate was written: after a tick whose write failed the
\* counter and the memory file are as they were when the tick began and no
\* post-evolution backup was made.
C33_CountsOnlyWrittenCode ==
    WriteFailed =>
        /\ evolution_count = tick0.evolution_count
        /\ outcome # "applied"
        /\ fs.memory = tick0.fs.memory
        /\ \A n \in 0..evolution_count :
              ~InTrace("post_backup", n) /\ ~InTrace("post_backup_failed", n)


\* the sampling threads whose loop has not ended
AliveSamplers == {t \in MonitorThreads : threads[t].at = "alive"}

\* C34: whatever the order of the start and stop calls, also when stop gave
\* up its join while the loop slept and a start followed, at most one
\* sampling loop is alive while the monitor is running, and only the thread
\* last spawned takes samples.
C34_OneSamplingLoop ==
    monitor.running =>
        /\ Cardinality(AliveSamplers) <= 1
        /\ sampled.by \in MonitorThreads =>
              sampled.by = <<"monitor", monitor.monitor_thread>>


\* C35: every successful snapshot makes an entry of its own: no two
\* create_backup calls return the same path, also when they are made within
\* one second of the clock with the same evolution count.
C35_SnapshotPathsDistinct ==
    \A i \in 1..Len(snapLog) : \A j \in 1..Len(snapLog) :
        i # j => snapLog[i] # snapLog[j]


(***************************************************************************)
(* Properties of the health verdict against the thresholds (SpecMonitor)   *)
(***************************************************************************)
\* C36: for every sample, is_system_healthy is false exactly when
\* check_thresholds on the same sample finds cpu, memory or disk over its
\* threshold, also for a value equal to its threshold.
C36_UnhealthyIffBreach ==
    \A i \in 1..Len(health) : ~health[i].result <=> health[i].breach


\* the code file holds code that ast.parse rejects
Broken == fs.code.exists /\ ~Parses(fs.code.data)

\* candidates that validate_code accepts
GoodCandidates == {RunEvolveCode, initial_code}

\* C37: when the code on disk does not parse, validate_evolution_code rejects
\* every candidate, also one that is valid by itself, and no step of the run
\* applies an evolution from there on: the code file and the evolution
\* counter stay as they are.
C37_BrokenCodeFreezesEvolution ==
    [][Broken =>
          /\ \A c \in GoodCandidates \cup {new_code} :
                ~validate_evolution_code(DefaultValidator, fs.code.data, c).valid
          /\ evolution_count' = evolution_count
          /\ fs'.code = fs.code
          /\ outcome' # "applied"]_vars

C37_Witness ==
    /\ Broken /\ TickDone /\ Invalid
    /\ Len(outcomes) >= 2
    /\ \A i \in 1..Len(outcomes) : outcomes[i] = "rejected"
    /\ evolution_count = 0
    /\ \A c \in GoodCandidates : validate_code(DefaultValidator, c).valid


(***************************************************************************)
(* Properties of a hot reload that fails (SpecReload)                      *)
(***************************************************************************)
\* C38: a hot reload of a file that changed but does not parse leaves the
\* configuration that was loaded before in effect: every get returns what it
\* returned before the reload. (stable is the tree that was in memory when
\* the last load_config began; while the file is malformed and no load is
\* under way, it differs from config only by what that load did.)
C38_FailedReloadKeepsConfig ==
    (loading = "idle" /\ config_file.kind = "malformed") =>
        \A keys \in QueryPaths :
            get(config, keys, Fallback).value = get(stable, keys, Fallback).value


(***************************************************************************)
(* Properties of a restore that fails (SpecStore)                          *)
(***************************************************************************)
\* C39: restore is all or nothing: a restore_backup call that returns False
\* leaves the memory, consciousness, code and config files as they were
\* before the call.
C39_FailedRestoreChangesNothing ==
    [][(ops' # ops /\ ret'.op = "restore_backup" /\ ~ret'.ok) => fs' = fs]_vars

(***************************************************************************)
(* The histories over a long run: SpecLongRun                              *)
(***************************************************************************)
\* the bodies of the ticks of a long run: a healthy tick whose candidate is
\* rejected, an unhealthy tick, a tick whose body raises
LongRunBodies == {"rejected", "skipped_unhealthy", "failed"}

\* seconds of the body of a tick of the long run: with the back-off sleep of
\* 2 * cycle_interval every tick lasts the same
LongRunSeconds(body) ==
    IF body = "skipped_unhealthy" THEN 1 ELSE 1 + 2 * cycle_interval

\* one pass of `while self.running` as in Cycle, for the histories alone:
\* the clock and the logs of outcomes and anomaly checks are not followed,
\* so that runs differ only in what their histories hold
LongRunCycle(body, memory) ==
    LET n == cycle_count + 1
        slept == IF body = "skipped_unhealthy" THEN 2 * cycle_interval ELSE 0
        duration == (LongRunSeconds(body) + slept) * TicksPerSec
        kept == AfterBody(n, body, error_history, cycle_times,
                          memory_usage_history)
        errors == IF body = "failed"
                  THEN Append(kept.error_history, [cycle |-> n, timestamp |-> clock])
                  ELSE kept.error_history
        r == _check_anomalies(anomaly_config, n, duration, memory,
                              kept.memory_usage_history, errors, clock)
    IN  /\ pc = "loop" /\ running /\ cycle_count < tick_limit
        /\ cycle_count' = n
        /\ healthy' = (body # "skipped_unhealthy")
        /\ outcome' = body
        /\ error_history' = errors
        /\ cycle_times' = Append(kept.cycle_times, duration)
        /\ memory_usage_history' = r.history
        /\ pc' = IF body = "failed" \/ r.raised THEN "crashed" ELSE "loop"
        /\ UNCHANGED <<fs, backups, clock, cfg, tick_limit, faults, running,
                       evolution_count, code_lines, new_code, outcomes, trace,
                       tick0, apiVars, svcVars, haltVars, confVars, valVars,
                       anomaly_checks, anomaly_config, loop_log>>

InitLongRun ==
    /\ fs = FirstRun(File(RunEvolveCode))
    /\ cfg \in {c \in Configs : c.max_backups = MaxBackupsCfg /\ ~c.compression
                                /\ c.before_evolution}
    /\ faults = 0
    /\ tick_limit = LongRunTicks
    /\ Assembled
    /\ ConfigLoaded(Doc(DefaultTree, 1))
    /\ NoValidation
    /\ NoAnomalies

NextLongRun ==
    \/ Awaken
    \/ \E body \in LongRunBodies :
          LongRunCycle(body, CHOOSE m \in MemorySamples : TRUE)

SpecLongRun == InitLongRun /\ [][NextLongRun]_vars

\* C40: the rolling histories of the supervisor (cycle times, memory-usage
\* samples, error history) stay below a fixed bound in every run, whatever
\* the pattern of healthy and unhealthy ticks: none is ever longer than its
\* cleanup limit plus the ticks of two cleanup periods
C40_HistoriesBounded ==
    /\ Len(cycle_times) <= cycle_times_limit + 2 * cleanup_period
    /\ Len(memory_usage_history) <= memory_history_limit + 2 * cleanup_period
    /\ Len(error_history) <= error_history_limit + 2 * cleanup_period

====
